---- MODULE Spec2Model ----
(***************************************************************************)
(* Counted transitive-closure index over a directed acyclic multigraph     *)
(* (src/index_v2.py, AcyclicGraphReachabilityIndexV2) together with the    *)
(* MultiSet it is built on (src/index_v1.py), the first index version     *)
(* (src/index_v1.py, AcyclicGraphReachabilityIndex) and the index kept in  *)
(* a database (src/index_v3.py).                                           *)
(*                                                                         *)
(* A MultiSet is a function from its present keys to integers, a dict is a *)
(* function from its present keys to values, a Python set is a set.  A     *)
(* public call is one action; an exception raised inside a call stops the  *)
(* call and leaves whatever was already written.                           *)
(***************************************************************************)
EXTENDS Integers, Sequences, FiniteSets, TLC

VARIABLES direct_edge_counts,    \* MultiSet {(source, dest): count}
          index_paths_counts,    \* dict {source: MultiSet {dest: count}}
          inverted_index_paths,  \* dict {dest: {source, ...}}
          call,                  \* name of the last public call
          result,                \* its outcome: "ok" or the exception type
          ncalls,                \* number of public calls made so far
          added,                 \* edges added and not yet taken back, in
                                 \* the order of the calls (runs that undo)
          self,                  \* the MultiSet or pattern a method is
                                 \* called on (runs on a single object),
                                 \* the first index version, or the
                                 \* database of index_v3
          args,                  \* the arguments of the last such call or
                                 \* of the last read of the index
          returned,              \* the value that call returned, the
                                 \* triples a generator has yielded so far,
                                 \* or the outcome and the commits of the
                                 \* last call on the database
          frame                  \* the locals of a suspended generator
                                 \* (RuleSet.apply), None outside one

vars == <<direct_edge_counts, index_paths_counts, inverted_index_paths,
          call, result, ncalls, added, self, args, returned, frame>>

\* what a call of add_edge, remove_edge or remove_node neither reads nor writes
object_vars == <<self, args, returned, frame>>

containers == <<direct_edge_counts, index_paths_counts, inverted_index_paths>>

\* Bounds on the length of a run (number of public calls): of runs of any
\* calls, of the longer runs of any calls, and of runs of calls that all
\* return normally.
MaxCalls == 4

MaxLongCalls == 5

MaxOkCalls == 5

\* Bound on the number of edges added before they are taken back.
MaxAdded == 3

\* Bound on the length of a run of add_edge calls.
MaxAddCalls == 4

\* Bound on the length of a run of calls that include reads of the index.
MaxReadCalls == 3

\* Bound on the counts assigned to, and held by, a MultiSet used on its own.
MaxCount == 2

\* The keys of a MultiSet used on its own.
Key == {"x", "y"}

\* Node(name): the names used as arguments; "" is the Node with an empty name.
Node == {"", "a", "b", "c", "d"}

Edge == Node \X Node

-----------------------------------------------------------------------------
(* MultiSet (a Counter that refuses negative values and prunes zeros)      *)

EmptyDict == [k \in {} |-> 0]

\* Counter.__getitem__ / Counter.__missing__: a missing key reads as 0.
MultiSet_getitem(m, key) == IF key \in DOMAIN m THEN m[key] ELSE 0

\* dict.__delitem__ through Counter.__delitem__: no error when absent.
MultiSet_delitem(m, key) == [k \in (DOMAIN m) \ {key} |-> m[k]]

\* MultiSet.__setitem__ raises ValueError on a negative value.
MultiSet_setitem_raises(value) == value < 0

\* a __setitem__ that stores a zero instead of deleting the key
MultiSet_setitem_keeps_zero(m, key, value) ==
    [k \in (DOMAIN m) \cup {key} |-> IF k = key THEN value ELSE m[k]]

\* MultiSet.__setitem__ for value >= 0: zero deletes the key.
MultiSet_setitem(m, key, value) ==
    IF value = 0
    THEN MultiSet_delitem(m, key)
    ELSE [k \in (DOMAIN m) \cup {key} |-> IF k = key THEN value ELSE m[k]]

\* dict.setdefault(key, default) as the resulting dict.
setdefault(d, key, default) ==
    IF key \in DOMAIN d THEN d
    ELSE [k \in (DOMAIN d) \cup {key} |-> IF k = key THEN default ELSE d[k]]

\* del d[key]
dict_del(d, key) == [k \in (DOMAIN d) \ {key} |-> d[k]]

\* d[key] = value
dict_set(d, key, value) ==
    [k \in (DOMAIN d) \cup {key} |-> IF k = key THEN value ELSE d[k]]

-----------------------------------------------------------------------------
(* The index inside a call: the three containers and the set of exception  *)
(* types the call may have raised so far ({} while it is still running).   *)

Idx(d, p, i, r) ==
    [direct_edge_counts |-> d, index_paths_counts |-> p,
     inverted_index_paths |-> i, raised |-> r]

Raise(idx, kinds) == [idx EXCEPT !.raised = kinds]

\* _check_invariants: the exception types it can raise on idx ({} = passes).
\* The first loop only asserts; the second and third loops raise KeyError
\* when the forward dict has no entry for the source and AssertionError
\* otherwise, for whichever offending entry the iteration meets first.
_check_invariants(idx) ==
    LET p == idx.index_paths_counts
        i == idx.inverted_index_paths
        d == idx.direct_edge_counts
        loop1 == \E node_from \in DOMAIN p :
                    \/ Len(node_from) = 0
                    \/ node_from \in DOMAIN p[node_from]
                    \/ \E node_to \in DOMAIN p[node_from] :
                          \/ node_to \notin DOMAIN i
                          \/ node_from \notin i[node_to]
                          \/ p[node_from][node_to] <= 0
        loop2 == {IF node_from \notin DOMAIN p THEN "KeyError" ELSE "AssertionError" :
                    node_from \in UNION {{f \in i[node_to] :
                                            \/ f \notin DOMAIN p
                                            \/ node_to \notin DOMAIN p[f]} :
                                         node_to \in DOMAIN i}}
        loop3 == {IF e[1] \notin DOMAIN p THEN "KeyError" ELSE "AssertionError" :
                    e \in {x \in DOMAIN d :
                             \/ x[1] \notin DOMAIN p
                             \/ MultiSet_getitem(p[x[1]], x[2]) < d[x]}}
    IN  IF loop1 THEN {"AssertionError"}
        ELSE IF loop2 # {} THEN loop2
        ELSE loop3

\* line 65: self.inverted_index_paths.setdefault(_to, set()).add(_from)
_inverted_add(inv, _to, _from) ==
    LET i1 == setdefault(inv, _to, {})
    IN  dict_set(i1, _to, i1[_to] \cup {_from})

\* a closure entry that reached zero stays in the inverse index
_inverted_remove_forgotten(inv, _to, _from) == inv

\* lines 69-72, for _to a key of the inverse index
_inverted_remove(inv, _to, _from) ==
    IF _from \in inv[_to]
    THEN IF inv[_to] \ {_from} = {}
         THEN dict_del(inv, _to)
         ELSE dict_set(inv, _to, inv[_to] \ {_from})
    ELSE inv

\* _add_indirect_edge(_from, _to, _add_count)
_add_indirect_edge(idx, _from, _to, _add_count) ==
    IF idx.raised # {} THEN idx
    ELSE IF _add_count = 0 \/ _from = _to THEN Raise(idx, {"AssertionError"})
    ELSE
    LET p1   == setdefault(idx.index_paths_counts, _from, EmptyDict)
        newv == MultiSet_getitem(p1[_from], _to) + _add_count
    IN  IF MultiSet_setitem_raises(newv)
        THEN Raise([idx EXCEPT !.index_paths_counts = p1], {"ValueError"})
        ELSE
        LET p2 == dict_set(p1, _from, MultiSet_setitem(p1[_from], _to, newv))
            i0 == idx.inverted_index_paths
        IN  IF MultiSet_getitem(p2[_from], _to) # 0
            THEN LET out == [idx EXCEPT !.index_paths_counts = p2,
                                        !.inverted_index_paths = _inverted_add(i0, _to, _from)]
                 IN  Raise(out, _check_invariants(out))
            ELSE LET p3 == IF DOMAIN p2[_from] = {} THEN dict_del(p2, _from) ELSE p2
                 IN  IF _to \notin DOMAIN i0
                     THEN Raise([idx EXCEPT !.index_paths_counts = p3], {"KeyError"})
                     ELSE
                     LET out == [idx EXCEPT !.index_paths_counts = p3,
                                            !.inverted_index_paths =
                                                _inverted_remove(i0, _to, _from)]
                     IN  Raise(out, _check_invariants(out))

-----------------------------------------------------------------------------
(* Iteration orders.  reachable_backwards is filled by iterating a Python  *)
(* set of Nodes, whose order follows the per-process randomised string     *)
(* hash; reachable_forwards is a copy of a dict in insertion order.  The   *)
(* containers here do not record insertion order, so every order is taken. *)

Orderings(S) ==
    {s \in [1..Cardinality(S) -> S] : \A x, y \in 1..Cardinality(S) : x # y => s[x] # s[y]}

\* _reachable_backwards(_node): raises KeyError when the inverse index names
\* a source the forward dict does not have.
_reachable_backwards_raises(idx, _node) ==
    /\ _node \in DOMAIN idx.inverted_index_paths
    /\ \E reachable_node \in idx.inverted_index_paths[_node] :
          reachable_node \notin DOMAIN idx.index_paths_counts

_reachable_backwards(idx, _node) ==
    LET srcs == IF _node \in DOMAIN idx.inverted_index_paths
                THEN idx.inverted_index_paths[_node] ELSE {}
    IN  [reachable_node \in
            {r \in srcs : MultiSet_getitem(idx.index_paths_counts[r], _node) # 0}
         |-> idx.index_paths_counts[reachable_node][_node]]

\* _reachable_forwards(_node)
_reachable_forwards(idx, _node) ==
    IF _node \in DOMAIN idx.index_paths_counts
    THEN idx.index_paths_counts[_node] ELSE EmptyDict

\* a run of _add_indirect_edge calls, stopped by the first exception
RECURSIVE _add_indirect_edges(_, _)
_add_indirect_edges(idx, updates) ==
    IF updates = <<>> \/ idx.raised # {} THEN idx
    ELSE _add_indirect_edges(
            _add_indirect_edge(idx, Head(updates)[1], Head(updates)[2], Head(updates)[3]),
            Tail(updates))

\* self.direct_edge_counts[(node_from, node_to)] += multiplier
_add_direct(idx, node_from, node_to, multiplier) ==
    IF idx.raised # {} THEN idx
    ELSE LET newv == MultiSet_getitem(idx.direct_edge_counts, <<node_from, node_to>>)
                       + multiplier
         IN  IF MultiSet_setitem_raises(newv) THEN Raise(idx, {"ValueError"})
             ELSE [idx EXCEPT !.direct_edge_counts =
                      MultiSet_setitem(@, <<node_from, node_to>>, newv)]

\* the direct edge taken out of direct_edge_counts only, its own path count
\* left in the closure
_remove_direct_first_counts_only(idx, node_from, node_to, multiplier) ==
    IF node_from # node_to /\ multiplier < 0
    THEN _add_direct(idx, node_from, node_to, multiplier)
    ELSE idx

\* lines 82-84: the direct edge is removed first
_remove_direct_first(idx, node_from, node_to, multiplier) ==
    IF node_from # node_to /\ multiplier < 0
    THEN _add_indirect_edge(_add_direct(idx, node_from, node_to, multiplier),
                            node_from, node_to, multiplier)
    ELSE idx

\* lines 87-91: node_from = node_to removes the node's direct edges
_remove_node_edges(idx, node_from, node_to, multiplier) ==
    IF idx.raised # {} \/ node_from # node_to THEN idx
    ELSE IF multiplier # -1 THEN Raise(idx, {"AssertionError"})
    ELSE [idx EXCEPT !.direct_edge_counts =
             [edge \in {e \in DOMAIN @ : e[1] # node_from /\ e[2] # node_from} |-> @[edge]]]

\* the update without the first loop (the pairs that join a node reaching
\* node_from to a node reached from node_to), as in the first index version
_closure_updates_without_cross(node_from, node_to, multiplier, back, fwd, order_from, order_to) ==
    [k \in 1..Len(order_to) |-> <<node_from, order_to[k], fwd[order_to[k]] * multiplier>>]
    \o [k \in 1..Len(order_from) |-> <<order_from[k], node_to, back[order_from[k]] * multiplier>>]

\* lines 101-112: the three loops, as the list of their updates
_closure_updates(node_from, node_to, multiplier, back, fwd, order_from, order_to) ==
    LET nf == Len(order_from)
        nt == Len(order_to)
        cross == [k \in 1..(nf * nt) |->
                    LET from_node == order_from[((k - 1) \div nt) + 1]
                        to_node   == order_to[((k - 1) % nt) + 1]
                    IN  <<from_node, to_node, back[from_node] * fwd[to_node] * multiplier>>]
        tos   == [k \in 1..nt |-> <<node_from, order_to[k], fwd[order_to[k]] * multiplier>>]
        froms == [k \in 1..nf |-> <<order_from[k], node_to, back[order_from[k]] * multiplier>>]
    IN  cross \o tos \o froms

\* lines 114-117: the direct edge is added last
_add_direct_last(idx, node_from, node_to, multiplier) ==
    IF node_from # node_to /\ multiplier > 0
    THEN _add_direct(_add_indirect_edge(idx, node_from, node_to, multiplier),
                     node_from, node_to, multiplier)
    ELSE idx

\* line 120
_final_check(idx) ==
    IF idx.raised # {} THEN idx ELSE Raise(idx, _check_invariants(idx))

\* the update with the direct count changed at the other end: incremented
\* before the closure deltas of an add, decremented after those of a remove
_add_edge_unsafe_direct_at_other_end(idx, node_from, node_to, multiplier) ==
    IF multiplier \notin {-1, 1} THEN {Raise(idx, {"AssertionError"})}
    ELSE
    LET idx0 == IF node_from # node_to /\ multiplier > 0
                THEN _add_direct(idx, node_from, node_to, multiplier) ELSE idx
        idx1 == _remove_node_edges(
                    IF node_from # node_to /\ multiplier < 0
                    THEN _add_indirect_edge(idx0, node_from, node_to, multiplier)
                    ELSE idx0,
                    node_from, node_to, multiplier)
    IN  IF idx1.raised # {} THEN {idx1}
        ELSE IF _reachable_backwards_raises(idx1, node_from)
        THEN {Raise(idx1, {"KeyError"})}
        ELSE
        LET reachable_from_node_from == _reachable_backwards(idx1, node_from)
            reachable_from_node_to   == _reachable_forwards(idx1, node_to)
        IN  IF \/ MultiSet_getitem(reachable_from_node_from, node_to) # 0
               \/ MultiSet_getitem(reachable_from_node_to, node_from) # 0
            THEN {Raise(idx1, {"AssertionError"})}
            ELSE
            {LET idx2 == _add_indirect_edges(idx1,
                            _closure_updates(node_from, node_to, multiplier,
                                             reachable_from_node_from,
                                             reachable_from_node_to,
                                             order_from, order_to))
                 idx3 == IF node_from # node_to /\ multiplier > 0
                         THEN _add_indirect_edge(idx2, node_from, node_to, multiplier)
                         ELSE IF node_from # node_to
                         THEN _add_direct(idx2, node_from, node_to, multiplier)
                         ELSE idx2
             IN  _final_check(idx3) :
             order_from \in Orderings(DOMAIN reachable_from_node_from),
             order_to \in Orderings(DOMAIN reachable_from_node_to)}

\* _add_edge_unsafe(node_from, node_to, multiplier): the set of indexes it
\* can end in, one for each iteration order of the two snapshots.
_add_edge_unsafe(idx, node_from, node_to, multiplier) ==
    IF multiplier \notin {-1, 1} THEN {Raise(idx, {"AssertionError"})}
    ELSE
    LET idx1 == _remove_node_edges(
                    _remove_direct_first(idx, node_from, node_to, multiplier),
                    node_from, node_to, multiplier)
    IN  IF idx1.raised # {} THEN {idx1}
        ELSE IF _reachable_backwards_raises(idx1, node_from)
        THEN {Raise(idx1, {"KeyError"})}
        ELSE
        LET reachable_from_node_from == _reachable_backwards(idx1, node_from)
            reachable_from_node_to   == _reachable_forwards(idx1, node_to)
        IN  IF \/ MultiSet_getitem(reachable_from_node_from, node_to) # 0
               \/ MultiSet_getitem(reachable_from_node_to, node_from) # 0
            THEN {Raise(idx1, {"AssertionError"})}
            ELSE
            {_final_check(_add_direct_last(
                _add_indirect_edges(idx1,
                    _closure_updates(node_from, node_to, multiplier,
                                     reachable_from_node_from, reachable_from_node_to,
                                     order_from, order_to)),
                node_from, node_to, multiplier)) :
             order_from \in Orderings(DOMAIN reachable_from_node_from),
             order_to \in Orderings(DOMAIN reachable_from_node_to)}

-----------------------------------------------------------------------------
(* Public operations, as the set of indexes a call can end in.             *)

\* add_edge without the reachability test of line 127
add_edge_without_cycle_test(idx, node_from, node_to) ==
    IF node_from = node_to THEN {Raise(idx, {"AssertionError"})}
    ELSE _add_edge_unsafe(idx, node_from, node_to, 1)

add_edge(idx, node_from, node_to) ==
    IF node_from = node_to THEN {Raise(idx, {"AssertionError"})}
    ELSE IF MultiSet_getitem(_reachable_forwards(idx, node_to), node_from) > 0
    THEN {Raise(idx, {"ValueError"})}
    ELSE _add_edge_unsafe(idx, node_from, node_to, 1)

\* remove_edge that returns quietly when there is no direct edge
remove_edge_ignoring_missing(idx, node_from, node_to) ==
    IF node_from = node_to THEN {Raise(idx, {"AssertionError"})}
    ELSE IF MultiSet_getitem(idx.direct_edge_counts, <<node_from, node_to>>) = 0
    THEN {idx}
    ELSE _add_edge_unsafe(idx, node_from, node_to, -1)

remove_edge(idx, node_from, node_to) ==
    IF node_from = node_to THEN {Raise(idx, {"AssertionError"})}
    ELSE IF MultiSet_getitem(idx.direct_edge_counts, <<node_from, node_to>>) = 0
    THEN {Raise(idx, {"ValueError"})}
    ELSE _add_edge_unsafe(idx, node_from, node_to, -1)

remove_node(idx, node) == _add_edge_unsafe(idx, node, node, -1)

\* node_from in self.inverted_index_paths.get(node_to, set())
check_reachable(node_from, node_to) ==
    /\ node_to \in DOMAIN inverted_index_paths
    /\ node_from \in inverted_index_paths[node_to]

\* A read of the index: the index as the read leaves it, the value returned
\* and the exceptions it can raise.  A returned list is given as the set of
\* its members (its order is the insertion order, which a dict here does
\* not carry).
Read(idx, value, kinds) == [index |-> idx, value |-> value, raised |-> kinds]

\* dict.get(key, default): no entry is created
dict_get(d, key, default) == IF key \in DOMAIN d THEN d[key] ELSE default

\* line 147, with the index as an argument
check_reachable_in(idx, node_from, node_to) ==
    Read(idx, node_from \in dict_get(idx.inverted_index_paths, node_to, {}), {})

\* line 150: list(self.index_paths_counts.get(node_from, MultiSet()).keys())
lookup_reachable(idx, node_from) ==
    Read(idx, DOMAIN dict_get(idx.index_paths_counts, node_from, EmptyDict), {})

\* line 153: list(self.inverted_index_paths.get(node_to)); get without a
\* default gives None for a missing key and list(None) raises TypeError
lookup_reverse(idx, node_to) ==
    IF node_to \in DOMAIN idx.inverted_index_paths
    THEN Read(idx, idx.inverted_index_paths[node_to], {})
    ELSE Read(idx, "None", {"TypeError"})

\* random_test.create_index: the calls of a list of (from, to, add) entries
\* made one after the other on a new index; an exception ends the list.
RECURSIVE create_index_from(_, _)
create_index_from(idxs, _edges) ==
    IF _edges = <<>> THEN idxs
    ELSE LET _from == Head(_edges)[1]
             _to   == Head(_edges)[2]
             _add  == Head(_edges)[3]
         IN  create_index_from(
                 UNION {IF _index.raised # {} THEN {_index}
                        ELSE IF _add THEN add_edge(_index, _from, _to)
                        ELSE remove_edge(_index, _from, _to) : _index \in idxs},
                 Tail(_edges))

create_index(_edges) ==
    create_index_from({Idx(EmptyDict, EmptyDict, EmptyDict, {})}, _edges)

\* the (from, to, True) entries of a multiset of direct edges, each edge as
\* often as its count, in one fixed order (the sorted list of random_test)
RECURSIVE original_edges(_)
original_edges(counts) ==
    IF DOMAIN counts = {} THEN <<>>
    ELSE LET edge == CHOOSE e \in DOMAIN counts : TRUE
         IN  <<<<edge[1], edge[2], TRUE>>>>
             \o original_edges(MultiSet_setitem(counts, edge, counts[edge] - 1))

-----------------------------------------------------------------------------
(* MultiSet methods as calls on one object: the object as the call leaves  *)
(* it, the value returned and the exceptions the call can raise.           *)

Method(obj, value, kinds) == [self |-> obj, value |-> value, raised |-> kinds]

\* MultiSet.__setitem__(key, value) for an integer value
MultiSet___setitem__(m, key, value) ==
    IF MultiSet_setitem_raises(value) THEN Method(m, "None", {"ValueError"})
    ELSE Method(MultiSet_setitem(m, key, value), "None", {})

\* m[key]: Counter.__missing__ gives 0 and stores nothing
MultiSet___getitem__(m, key) == Method(m, MultiSet_getitem(m, key), {})

\* iter(m): the keys of the dict
MultiSet___iter__(m) == Method(m, DOMAIN m, {})

\* Counter.copy: a new MultiSet with the same entries
MultiSet_copy(m) == [k \in DOMAIN m |-> m[k]]

\* Counter._keep_positive: entries with a count below 1 are deleted
_keep_positive(m) == [k \in {j \in DOMAIN m : m[j] > 0} |-> m[k]]

\* Counter.__isub__ / Counter.__iadd__ on out: out[elem] -= count (sign -1)
\* or out[elem] += count (sign 1) for the entries of other in the given
\* order, each through MultiSet.__setitem__, which ends the loop when it
\* raises; then _keep_positive
RECURSIVE MultiSet_inplace(_, _, _, _)
MultiSet_inplace(out, other, order, sign) ==
    IF order = <<>> THEN Method(_keep_positive(out), "None", {})
    ELSE LET elem == Head(order)
             set  == MultiSet___setitem__(out, elem,
                         MultiSet_getitem(out, elem) + sign * other[elem])
         IN  IF set.raised # {} THEN set
             ELSE MultiSet_inplace(set.self, other, Tail(order), sign)

\* an arithmetic method that works on self instead of on a copy of it
MultiSet_arithmetic_in_place(m, other, sign) ==
    {LET out == MultiSet_inplace(m, other, order, sign)
     IN  [self |-> out.self, other |-> other,
          value |-> IF out.raised = {} THEN out.self ELSE "None",
          raised |-> out.raised] : order \in Orderings(DOMAIN other)}

\* lines 22-30: out = self.copy(); out += other / out -= other; return out.
\* The outcomes for every iteration order of other.
MultiSet_arithmetic(m, other, sign) ==
    {LET out == MultiSet_inplace(MultiSet_copy(m), other, order, sign)
     IN  [self |-> m, other |-> other,
          value |-> IF out.raised = {} THEN out.self ELSE "None",
          raised |-> out.raised] : order \in Orderings(DOMAIN other)}

MultiSet___add__(m, other) == MultiSet_arithmetic(m, other, 1)

MultiSet___sub__(m, other) == MultiSet_arithmetic(m, other, -1)

\* the MultiSets over Key with counts up to MaxCount
MultiSets == UNION {[S -> 1..MaxCount] : S \in SUBSET Key}

-----------------------------------------------------------------------------
(* Entities, triples and patterns (src/zanzibar_utils_v1.py).  An object   *)
(* is a record of its fields with its class; None and Ellipsis are values  *)
(* that are none of the strings used as field values.                      *)

None == "None"

Ellipsis == "Ellipsis"

\* the field values used: two types, two plain names and the name "*", two
\* relations, and the subject predicates Ellipsis and "member"
EntityType == {"user", "group"}

EntityName == {"alice", "bob", "*"}

Relation == {"member", "viewer"}

SubjectPredicate == {Ellipsis, "member"}

Entity(type, name) == [class |-> "Entity", type |-> type, name |-> name]

Entities == {Entity(type, name) : type \in EntityType, name \in EntityName}

\* Entity.wildcard
Entity_wildcard(entity) == entity.name = "*"

RelationalTriple(subject, relation, object, subject_predicate) ==
    [class |-> "RelationalTriple", subject |-> subject, relation |-> relation,
     object |-> object, subject_predicate |-> subject_predicate]

RelationalTriples ==
    {RelationalTriple(subject, relation, object, subject_predicate) :
        subject \in Entities, relation \in Relation, object \in Entities,
        subject_predicate \in SubjectPredicate}

EntityPattern(type, name) == [class |-> "EntityPattern", type |-> type, name |-> name]

EntityPatterns ==
    {EntityPattern(type, name) :
        type \in EntityType \cup {None}, name \in EntityName \cup {None}}

\* EntityPattern.wildcard
EntityPattern_wildcard(pattern) == pattern.name = "*"

\* a match without the test of lines 71-72
EntityPattern_match_without_wildcard(pattern, entity) ==
    IF entity.class # "Entity" THEN Method(pattern, None, {"TypeError"})
    ELSE IF pattern.type # None /\ pattern.type # entity.type
    THEN Method(pattern, FALSE, {})
    ELSE IF pattern.name # None /\ pattern.name # entity.name
    THEN Method(pattern, FALSE, {})
    ELSE Method(pattern, TRUE, {})

\* EntityPattern.match, lines 64-73
EntityPattern_match(pattern, entity) ==
    IF entity.class # "Entity" THEN Method(pattern, None, {"TypeError"})
    ELSE IF pattern.type # None /\ pattern.type # entity.type
    THEN Method(pattern, FALSE, {})
    ELSE IF pattern.name # None /\ pattern.name # entity.name
    THEN Method(pattern, FALSE, {})
    ELSE IF EntityPattern_wildcard(pattern) # Entity_wildcard(entity)
    THEN Method(pattern, FALSE, {})
    ELSE Method(pattern, TRUE, {})

RelationalTriplePattern(subject_predicate, subject_type, subject_name, relation, object_type, object_name) ==
    [class |-> "RelationalTriplePattern",
     subject_predicate |-> subject_predicate,
     subject_type |-> subject_type, subject_name |-> subject_name,
     relation |-> relation,
     object_type |-> object_type, object_name |-> object_name]

RelationalTriplePatterns ==
    {RelationalTriplePattern(subject_predicate, subject_type, subject_name,
                             relation, object_type, object_name) :
        subject_predicate \in SubjectPredicate \cup {None},
        subject_type \in EntityType \cup {None},
        subject_name \in EntityName \cup {None},
        relation \in Relation \cup {None},
        object_type \in EntityType \cup {None},
        object_name \in EntityName \cup {None}}

\* RelationalTriplePattern.subject and .object, lines 91-97
RelationalTriplePattern_subject(pattern) ==
    EntityPattern(pattern.subject_type, pattern.subject_name)

RelationalTriplePattern_object(pattern) ==
    EntityPattern(pattern.object_type, pattern.object_name)

\* a match that does not look at the object of the triple
RelationalTriplePattern_match_without_object(pattern, relational_triple) ==
    IF relational_triple.class # "RelationalTriple"
    THEN Method(pattern, None, {"TypeError"})
    ELSE IF /\ pattern.subject_predicate # None
            /\ pattern.subject_predicate # relational_triple.subject_predicate
    THEN Method(pattern, FALSE, {})
    ELSE IF ~EntityPattern_match(RelationalTriplePattern_subject(pattern),
                                 relational_triple.subject).value
    THEN Method(pattern, FALSE, {})
    ELSE IF pattern.relation # None /\ pattern.relation # relational_triple.relation
    THEN Method(pattern, FALSE, {})
    ELSE Method(pattern, TRUE, {})

\* RelationalTriplePattern.match, lines 99-110; self.subject and self.object
\* are EntityPattern objects, so their tests "is not None" are always true
RelationalTriplePattern_match(pattern, relational_triple) ==
    IF relational_triple.class # "RelationalTriple"
    THEN Method(pattern, None, {"TypeError"})
    ELSE IF /\ pattern.subject_predicate # None
            /\ pattern.subject_predicate # relational_triple.subject_predicate
    THEN Method(pattern, FALSE, {})
    ELSE IF ~EntityPattern_match(RelationalTriplePattern_subject(pattern),
                                 relational_triple.subject).value
    THEN Method(pattern, FALSE, {})
    ELSE IF pattern.relation # None /\ pattern.relation # relational_triple.relation
    THEN Method(pattern, FALSE, {})
    ELSE IF ~EntityPattern_match(RelationalTriplePattern_object(pattern),
                                 relational_triple.object).value
    THEN Method(pattern, FALSE, {})
    ELSE Method(pattern, TRUE, {})

\* bool(value) for the values a pattern field can hold: None and the empty
\* string are false, Ellipsis and every other string are true
Truthy(value) == value \notin {None, ""}

\* EntityPattern.replace, lines 75-79: self.type or entity.type, ...
EntityPattern_replace(pattern, entity) ==
    IF entity.class # "Entity" THEN Method(pattern, None, {"TypeError"})
    ELSE Method(pattern,
                Entity(IF Truthy(pattern.type) THEN pattern.type ELSE entity.type,
                       IF Truthy(pattern.name) THEN pattern.name ELSE entity.name),
                {})

\* RelationalTriplePattern.replace, lines 112-121; self.subject and
\* self.object are EntityPattern objects, which are always true
RelationalTriplePattern_replace(pattern, relational_triple) ==
    IF relational_triple.class # "RelationalTriple"
    THEN Method(pattern, None, {"TypeError"})
    ELSE LET _pred == IF Truthy(pattern.subject_predicate)
                      THEN pattern.subject_predicate
                      ELSE relational_triple.subject_predicate
             _subject == EntityPattern_replace(RelationalTriplePattern_subject(pattern),
                                               relational_triple.subject).value
             _object == EntityPattern_replace(RelationalTriplePattern_object(pattern),
                                              relational_triple.object).value
         IN  Method(pattern,
                    RelationalTriple(_subject,
                                     IF Truthy(pattern.relation) THEN pattern.relation
                                     ELSE relational_triple.relation,
                                     _object, _pred),
                    {})

\* the patterns whose fields are None, the empty string or a field value
ReplacePatterns ==
    {RelationalTriplePattern(subject_predicate, subject_type, subject_name,
                             relation, object_type, object_name) :
        subject_predicate \in SubjectPredicate \cup {None, ""},
        subject_type \in EntityType \cup {None, ""},
        subject_name \in EntityName \cup {None, ""},
        relation \in Relation \cup {None, ""},
        object_type \in EntityType \cup {None, ""},
        object_name \in EntityName \cup {None, ""}}

\* ---- Filter, Rule and RuleSet (zanzibar_utils_v1.py, lines 124-169) ----
\* Every Rule here carries a then-pattern, as the constructor is used
\* throughout the module; the generator is applied to triples only.

Filter(if_pattern) == [class |-> "Filter", if_pattern |-> if_pattern]

\* Filter.apply
Filter_apply(filter, relational_triple) ==
    RelationalTriplePattern_match(filter.if_pattern, relational_triple).value

Rule(if_pattern, then_pattern) ==
    [class |-> "Rule", if_pattern |-> if_pattern, then_pattern |-> then_pattern]

\* the test of Rule.apply, line 138
Rule_matches(rule, relational_triple) ==
    RelationalTriplePattern_match(rule.if_pattern, relational_triple).value

\* a Rule that hands back the triple it matched
Rule_apply_unchanged(rule, relational_triple) ==
    IF Rule_matches(rule, relational_triple) THEN relational_triple ELSE None

\* Rule.apply: the derived triple, None when the if-pattern does not match
Rule_apply(rule, relational_triple) ==
    IF Rule_matches(rule, relational_triple)
    THEN RelationalTriplePattern_replace(rule.then_pattern, relational_triple).value
    ELSE None

RuleSet(rules_and_filters) ==
    [class |-> "RuleSet", rules_and_filters |-> rules_and_filters]

\* the positions of the entries of one class, in list order
EntriesOf(rules_and_filters, class) ==
    {i \in DOMAIN rules_and_filters : rules_and_filters[i].class = class}

\* an admission that asks the first Filter of the list only
RuleSet_admits_first_filter_only(rules_and_filters, relational_triple) ==
    LET filters == EntriesOf(rules_and_filters, "Filter")
    IN  /\ filters # {}
        /\ Filter_apply(rules_and_filters[CHOOSE i \in filters :
                                             \A j \in filters : i <= j],
                        relational_triple)

\* RuleSet.apply, the loop of lines 148-155: true when it leaves by break
RuleSet_admits(rules_and_filters, relational_triple) ==
    \E i \in EntriesOf(rules_and_filters, "Filter") :
        Filter_apply(rules_and_filters[i], relational_triple)

\* the locals of the generator: where it stands ("while" at the test of
\* line 158, "yield" suspended at line 162, "done" once it has returned),
\* its two sets, and the triple bound to relational_triple
Frame(pc, unprocessed, processed, relational_triple) ==
    [pc |-> pc, unprocessed |-> unprocessed, processed |-> processed,
     relational_triple |-> relational_triple]

\* RuleSet.apply, lines 147-157: up to the first test of the while loop
RuleSet_apply(rules_and_filters, relational_triple) ==
    IF RuleSet_admits(rules_and_filters, relational_triple)
    THEN Frame("while", {relational_triple}, {}, relational_triple)
    ELSE Frame("done", {}, {}, relational_triple)

\* a pop that leaves the triple in the set
RuleSet_peek(f, relational_triple) ==
    [f EXCEPT !.relational_triple = relational_triple]

\* line 159, unprocessed.pop() having picked relational_triple
RuleSet_pop(f, relational_triple) ==
    [f EXCEPT !.unprocessed = @ \ {relational_triple},
              !.relational_triple = relational_triple]

\* a loop that stops at the first Rule that matches
Rules_apply_first_match_only(rules_and_filters, relational_triple) ==
    LET matching == {i \in EntriesOf(rules_and_filters, "Rule") :
                        Rule_matches(rules_and_filters[i], relational_triple)}
    IN  {Rule_apply(rules_and_filters[i], relational_triple) :
            i \in {k \in matching : \A j \in matching : k <= j}}

\* lines 165-169: what the Rules of the list derive from one triple (the
\* results that are not None)
Rules_apply(rules_and_filters, relational_triple) ==
    {Rule_apply(rules_and_filters[i], relational_triple) :
        i \in {k \in EntriesOf(rules_and_filters, "Rule") :
                  Rule_matches(rules_and_filters[k], relational_triple)}}

\* a generator that applies the Rules to the first triple it yields only
RuleSet_resume_first_level_only(rules_and_filters, f) ==
    [f EXCEPT !.pc = "while",
              !.processed = @ \cup {f.relational_triple},
              !.unprocessed =
                  IF f.processed = {}
                  THEN @ \cup Rules_apply(rules_and_filters, f.relational_triple)
                  ELSE @]

\* lines 164-169: the generator resumed after its yield
RuleSet_resume(rules_and_filters, f) ==
    [f EXCEPT !.pc = "while",
              !.processed = @ \cup {f.relational_triple},
              !.unprocessed = @ \cup Rules_apply(rules_and_filters,
                                                 f.relational_triple)]

\* the lists of triples the loop of lines 158-169 can yield from a frame at
\* its while test, one for every order in which unprocessed.pop() can pick
RECURSIVE RuleSet_apply_runs(_, _, _)
RuleSet_apply_runs(rules_and_filters, f, yielded) ==
    IF f.unprocessed = {} THEN {yielded}
    ELSE UNION {LET g == RuleSet_pop(f, relational_triple)
                IN  IF relational_triple \in g.processed
                    THEN RuleSet_apply_runs(rules_and_filters, g, yielded)
                    ELSE RuleSet_apply_runs(
                             rules_and_filters,
                             RuleSet_resume(rules_and_filters, g),
                             Append(yielded, relational_triple)) :
                relational_triple \in f.unprocessed}

\* list(RuleSet(rules_and_filters).apply(relational_triple)), every outcome
RuleSet_apply_lists(rules_and_filters, relational_triple) ==
    RuleSet_apply_runs(rules_and_filters,
                       RuleSet_apply(rules_and_filters, relational_triple), <<>>)

\* set(RuleSet(rules_and_filters).apply(relational_triple)), every outcome
RuleSet_apply_sets(rules_and_filters, relational_triple) ==
    {{yielded[i] : i \in DOMAIN yielded} :
        yielded \in RuleSet_apply_lists(rules_and_filters, relational_triple)}

\* the entries the rule lists are drawn from: two Filters, a pair of Rules
\* that derive each other's input and a Rule that rewrites the subject
\* predicate
MaxRules == 3

RulePool ==
    {Filter(RelationalTriplePattern(None, None, None, "member", None, None)),
     Filter(RelationalTriplePattern(Ellipsis, "user", None, "viewer", "group", None)),
     Rule(RelationalTriplePattern(None, None, None, "member", None, None),
          RelationalTriplePattern(None, None, None, "viewer", None, None)),
     Rule(RelationalTriplePattern(None, None, None, "viewer", None, None),
          RelationalTriplePattern(None, None, None, "member", None, None)),
     Rule(RelationalTriplePattern(Ellipsis, None, None, None, None, None),
          RelationalTriplePattern("member", None, None, None, None, None))}

RuleSets ==
    {RuleSet(rules_and_filters) :
        rules_and_filters \in UNION {[1..n -> RulePool] : n \in 0..MaxRules}}

\* the triples apply is called on
RuleTriples ==
    {RelationalTriple(Entity(type, name), relation, Entity("group", "bob"),
                      subject_predicate) :
        type \in EntityType, name \in {"alice", "*"}, relation \in Relation,
        subject_predicate \in SubjectPredicate}

\* ---- triples as edges of the index (zanzibar_utils_v1.py, lines 21-52) ----

NodeV2(type, name, predicate) ==
    [class |-> "NodeV2", type |-> type, name |-> name, predicate |-> predicate]

\* RelationalTriple.node_from
RelationalTriple_node_from(t) ==
    NodeV2(t.subject.type, t.subject.name, t.subject_predicate)

\* RelationalTriple.node_to
RelationalTriple_node_to(t) ==
    NodeV2(t.object.type, t.object.name, t.relation)

\* A NodeV2 is a Node: the index uses it as a dictionary key (equal fields,
\* equal key) and reads nothing of it but the length of its name.  The nodes
\* of the authorization scenarios are given one key each, written as
\* type:name#predicate; all have a name that is not empty.
Node_key(node) ==
    CASE node = NodeV2("user", "alice", Ellipsis) -> "user:alice#..."
      [] node = NodeV2("group", "g1", "member") -> "group:g1#member"
      [] node = NodeV2("group", "g2", "member") -> "group:g2#member"
      [] node = NodeV2("document", "doc1", "writer") -> "document:doc1#writer"
      [] node = NodeV2("document", "doc1", "reader") -> "document:doc1#reader"

\* index.add_edge(s.node_from, s.node_to) for every s of a list, in its
\* order; an exception ends the loop
RECURSIVE add_edges(_, _)
add_edges(idxs, triples) ==
    IF triples = <<>> THEN idxs
    ELSE add_edges(
             UNION {IF idx.raised # {} THEN {idx}
                    ELSE add_edge(idx,
                                  Node_key(RelationalTriple_node_from(Head(triples))),
                                  Node_key(RelationalTriple_node_to(Head(triples)))) :
                    idx \in idxs},
             Tail(triples))

\* the schema of the scenarios: users may be readers and writers of
\* documents and members of groups, the members of a group may be writers
\* of documents, and a writer of a document is a reader of it
ScenarioRuleSet ==
    RuleSet(<<
        Filter(RelationalTriplePattern(Ellipsis, "user", None, "reader", "document", None)),
        Filter(RelationalTriplePattern(Ellipsis, "user", None, "writer", "document", None)),
        Rule(RelationalTriplePattern(None, None, None, "writer", "document", None),
             RelationalTriplePattern(None, None, None, "reader", None, None)),
        Filter(RelationalTriplePattern(Ellipsis, "user", None, "member", "group", None)),
        Filter(RelationalTriplePattern("member", "group", None, "writer", "document", None))>>)

alice == Entity("user", "alice")

doc1 == Entity("document", "doc1")

\* the triples written and deleted: alice a writer or a reader of doc1 or a
\* member of a group, the members of a group writers of doc1
ScenarioTriples ==
    {RelationalTriple(alice, "writer", doc1, Ellipsis),
     RelationalTriple(alice, "reader", doc1, Ellipsis),
     RelationalTriple(alice, "member", Entity("group", "g1"), Ellipsis),
     RelationalTriple(alice, "member", Entity("group", "g2"), Ellipsis),
     RelationalTriple(Entity("group", "g1"), "writer", doc1, "member"),
     RelationalTriple(Entity("group", "g2"), "writer", doc1, "member")}

MaxWrites == 4

-----------------------------------------------------------------------------
(* The index kept in a database (src/index_v3.py): a table of nodes and a  *)
(* table of edges, each a set of rows.  A node's id stands for its         *)
(* (predicate, type, name), which selects at most one row.  An optional    *)
(* argument (int | None, bool | None) is a set with at most one element,   *)
(* the empty set being None.  A session holds the tables as the statements *)
(* of the open transaction see them; commit makes them the database, and   *)
(* leaving the session on an exception discards them.                      *)

Some(value) == {value}

Value(optional) == CHOOSE value \in optional : TRUE

\* (count or 0)
OrZero(count) == IF count = {} THEN 0 ELSE Value(count)

NodeRow(id, implicit, reference_count) ==
    [id |-> id, implicit |-> implicit, reference_count |-> reference_count]

EdgeRow(subject_id, object_id, direct_edge_count, indirect_edge_count) ==
    [subject_id |-> subject_id, object_id |-> object_id,
     direct_edge_count |-> direct_edge_count,
     indirect_edge_count |-> indirect_edge_count]

Database(node_table, edge_table) == [node |-> node_table, edge |-> edge_table]

EmptyDatabase == Database({}, {})

Session(db) == [node |-> db.node, edge |-> db.edge, raised |-> {}]

SessionRaise(session, exception) == [session EXCEPT !.raised = {exception}]

\* select(Edge) with the where clauses of the ids that are not None
SelectEdges(session, subject_id, object_id) ==
    {triple \in session.edge :
        /\ (subject_id # None => triple.subject_id = subject_id)
        /\ (object_id # None => triple.object_id = object_id)}

\* the assertions at the head of _add_db_edges_unsafe
_add_db_edges_asserts(subject_id, object_id, direct_edge_count, indirect_edge_count) ==
    /\ (subject_id # None \/ object_id # None)
    /\ subject_id # object_id
    /\ (\/ direct_edge_count = {}
        \/ Value(direct_edge_count) # 0
        \/ indirect_edge_count = {}
        \/ Value(indirect_edge_count) # 0)
    /\ (indirect_edge_count = {} => direct_edge_count = {})
    /\ (OrZero(direct_edge_count) # 0 => indirect_edge_count = direct_edge_count)

\* the row is deleted rather than updated
_db_edge_deleted(triple, direct_edge_count, indirect_edge_count) ==
    /\ \/ direct_edge_count = {}
       \/ triple.direct_edge_count + Value(direct_edge_count) = 0
    /\ \/ indirect_edge_count = {}
       \/ triple.indirect_edge_count + Value(indirect_edge_count) = 0

\* the row after the update of its two counts
_db_edge_updated(triple, direct_edge_count, indirect_edge_count) ==
    EdgeRow(triple.subject_id, triple.object_id,
            IF direct_edge_count = {} THEN 0
            ELSE triple.direct_edge_count + Value(direct_edge_count),
            IF indirect_edge_count = {} THEN 0
            ELSE triple.indirect_edge_count + Value(indirect_edge_count))

\* the assertions on an updated row
_db_edge_asserts(triple) ==
    /\ triple.direct_edge_count >= 0
    /\ triple.indirect_edge_count >= triple.direct_edge_count
    /\ triple.indirect_edge_count > 0

_add_db_edges_unsafe(session, subject_id, object_id, direct_edge_count, indirect_edge_count) ==
    LET triples == SelectEdges(session, subject_id, object_id)
        kept == {t \in triples :
                    ~_db_edge_deleted(t, direct_edge_count, indirect_edge_count)}
        updated == {_db_edge_updated(t, direct_edge_count, indirect_edge_count) :
                        t \in kept}
    IN  IF session.raised # {} THEN session
        ELSE IF ~_add_db_edges_asserts(subject_id, object_id, direct_edge_count,
                                       indirect_edge_count)
        THEN SessionRaise(session, "AssertionError")
        ELSE IF triples = {}
        THEN IF OrZero(direct_edge_count) = 0 /\ OrZero(indirect_edge_count) = 0
             THEN session
             ELSE IF subject_id = None \/ object_id = None
             THEN session
             ELSE IF ~(/\ OrZero(indirect_edge_count) >= OrZero(direct_edge_count)
                       /\ OrZero(indirect_edge_count) > 0)
             THEN SessionRaise(session, "AssertionError")
             ELSE [session EXCEPT !.edge = @ \cup
                      {EdgeRow(subject_id, object_id, OrZero(direct_edge_count),
                               OrZero(indirect_edge_count))}]
        ELSE IF \E t \in updated : ~_db_edge_asserts(t)
        THEN SessionRaise(session, "AssertionError")
        ELSE [session EXCEPT !.edge = (@ \ triples) \cup updated]

\* one _add_db_edges_unsafe(session, from, to, 0, counts[from, to]) for each
\* pair of counts; the pairs are distinct, so each call meets its own row
RECURSIVE _add_db_indirect_edges(_, _)
_add_db_indirect_edges(session, counts) ==
    IF DOMAIN counts = {} THEN session
    ELSE LET pair == CHOOSE p \in DOMAIN counts : TRUE
         IN  _add_db_indirect_edges(
                 _add_db_edges_unsafe(session, pair[1], pair[2], Some(0),
                                      Some(counts[pair])),
                 [p \in (DOMAIN counts) \ {pair} |-> counts[p]])

\* reachable_before_subject: {subject_id: indirect_edge_count} of the rows
\* that end at the node
_db_reachable_before(session, subject_id) ==
    LET triples_from == {t \in session.edge : t.object_id = subject_id}
    IN  [id \in {t.subject_id : t \in triples_from} |->
            (CHOOSE t \in triples_from : t.subject_id = id).indirect_edge_count]

\* reachable_after_object: {object_id: indirect_edge_count} of the rows that
\* start at the node
_db_reachable_after(session, object_id) ==
    LET triples_to == {t \in session.edge : t.subject_id = object_id}
    IN  [id \in {t.object_id : t \in triples_to} |->
            (CHOOSE t \in triples_to : t.object_id = id).indirect_edge_count]

\* the three loops that add the indirect edges
_db_closure_updates(session, subject_id, object_id, multiplier) ==
    LET reachable_before_subject == _db_reachable_before(session, subject_id)
        reachable_after_object == _db_reachable_after(session, object_id)
        cross == [p \in (DOMAIN reachable_before_subject)
                            \X (DOMAIN reachable_after_object) |->
                     reachable_before_subject[p[1]]
                         * reachable_after_object[p[2]] * multiplier]
        from_subject == [p \in {subject_id} \X (DOMAIN reachable_after_object) |->
                            reachable_after_object[p[2]] * multiplier]
        to_object == [p \in (DOMAIN reachable_before_subject) \X {object_id} |->
                         reachable_before_subject[p[1]] * multiplier]
    IN  IF session.raised # {} THEN session
        ELSE IF \/ MultiSet_getitem(reachable_before_subject, object_id) # 0
                \/ MultiSet_getitem(reachable_after_object, subject_id) # 0
        THEN SessionRaise(session, "AssertionError")
        ELSE _add_db_indirect_edges(
                 _add_db_indirect_edges(
                     _add_db_indirect_edges(session, cross), from_subject),
                 to_object)

\* the reference count of one end of the edge
_db_count_reference(session, node_id, multiplier) ==
    LET found == {n \in session.node : n.id = node_id}
        _node == CHOOSE n \in found : TRUE
    IN  IF session.raised # {} THEN session
        ELSE IF found = {} THEN SessionRaise(session, "AssertionError")
        ELSE IF _node.reference_count + multiplier < 0
        THEN SessionRaise(session, "AssertionError")
        ELSE IF _node.reference_count + multiplier = 0 /\ _node.implicit
        THEN [session EXCEPT !.node = @ \ {_node}]
        ELSE [session EXCEPT !.node = (@ \ {_node}) \cup
                 {NodeRow(_node.id, _node.implicit,
                          _node.reference_count + multiplier)}]

\* the node's row is deleted, whatever its implicit flag
_db_delete_node(session, node_id) ==
    LET found == {n \in session.node : n.id = node_id}
    IN  IF session.raised # {} THEN session
        ELSE IF found = {} THEN SessionRaise(session, "AssertionError")
        ELSE [session EXCEPT !.node = @ \ found]

\* the outcome of a call: the database it leaves, the exception it raised
\* and the databases it committed, in the order of the commits
Outcome(db, raised, commits) ==
    [database |-> db, raised |-> raised, commits |-> commits]

\* the session's transaction is committed, or discarded on an exception
Commit(db, session) ==
    IF session.raised # {} THEN Outcome(db, session.raised, <<>>)
    ELSE Outcome(Database(session.node, session.edge), {},
                 <<Database(session.node, session.edge)>>)

_add_direct_edge_unsafe(db, subject_id, object_id, multiplier) ==
    LET removed_first ==
            IF subject_id # object_id /\ multiplier < 0
            THEN _add_db_edges_unsafe(Session(db), subject_id, object_id,
                                      Some(multiplier), Some(multiplier))
            ELSE Session(db)
        removed_node ==
            IF subject_id = object_id
            THEN IF multiplier # -1
                 THEN SessionRaise(removed_first, "AssertionError")
                 ELSE _add_db_edges_unsafe(
                          _add_db_edges_unsafe(removed_first, subject_id, None,
                                               {}, Some(0)),
                          None, object_id, {}, Some(0))
            ELSE removed_first
        closed == _db_closure_updates(removed_node, subject_id, object_id,
                                      multiplier)
        added_last ==
            IF subject_id # object_id /\ multiplier > 0
            THEN _add_db_edges_unsafe(closed, subject_id, object_id,
                                      Some(multiplier), Some(multiplier))
            ELSE closed
        counted ==
            IF subject_id = object_id
            THEN _db_delete_node(added_last, subject_id)
            ELSE _db_count_reference(
                     _db_count_reference(added_last, subject_id, multiplier),
                     object_id, multiplier)
    IN  IF multiplier \notin {-1, 1}
        THEN Outcome(db, {"AssertionError"}, <<>>)
        ELSE Commit(db, counted)

\* node(predicate, entity_type, entity_name, implicit=..., create_if_missing=...)
\* in a session of its own: the row found, marked explicit when the flag
\* asked for differs from the row's, or a new row, committed at once.  A
\* row created with implicit=None takes the column's default, True.
db_node(db, id, implicit, create_if_missing) ==
    LET found == {n \in db.node : n.id = id}
        row == CHOOSE n \in found : TRUE
        marked == Database((db.node \ found)
                               \cup {NodeRow(id, FALSE, row.reference_count)},
                           db.edge)
        created == Database(db.node \cup
                                {NodeRow(id, IF implicit = {} THEN TRUE
                                             ELSE Value(implicit), 0)},
                            db.edge)
    IN  IF found # {}
        THEN IF implicit # {} /\ row.implicit # Value(implicit)
             THEN Outcome(marked, {}, <<marked>>)
             ELSE Outcome(db, {}, <<>>)
        ELSE IF ~create_if_missing THEN Outcome(db, {"KeyError"}, <<>>)
        ELSE Outcome(created, {}, <<created>>)

\* the outcome of the steps of a call made so far, followed by the next one
Then(before, after) ==
    Outcome(after.database, after.raised, before.commits \o after.commits)

db_add_edge(db, subject_id, object_id) ==
    LET _subject == db_node(db, subject_id, {}, TRUE)
        _object == Then(_subject, db_node(_subject.database, object_id, {}, TRUE))
    IN  IF subject_id = object_id
        THEN Outcome(_object.database, {"AssertionError"}, _object.commits)
        ELSE IF \E t \in _object.database.edge :
                    /\ t.subject_id = object_id
                    /\ t.object_id = subject_id
                    /\ t.indirect_edge_count > 0
        THEN Outcome(_object.database, {"ValueError"}, _object.commits)
        ELSE Then(_object, _add_direct_edge_unsafe(_object.database, subject_id,
                                                   object_id, 1))

db_remove_edge(db, subject_id, object_id) ==
    LET _subject == db_node(db, subject_id, {}, FALSE)
        _object == db_node(db, object_id, {}, FALSE)
    IN  IF _subject.raised # {} \/ _object.raised # {}
        THEN Outcome(db, {"ValueError"}, <<>>)
        ELSE IF subject_id = object_id
        THEN Outcome(db, {"AssertionError"}, <<>>)
        ELSE IF ~\E t \in db.edge : /\ t.subject_id = subject_id
                                    /\ t.object_id = object_id
                                    /\ t.direct_edge_count # 0
        THEN Outcome(db, {"ValueError"}, <<>>)
        ELSE _add_direct_edge_unsafe(db, subject_id, object_id, -1)

db_remove_node(db, id) ==
    LET _node == db_node(db, id, {}, FALSE)
    IN  IF _node.raised # {} THEN _node
        ELSE _add_direct_edge_unsafe(db, id, id, -1)

-----------------------------------------------------------------------------
(* The first index version (src/index_v1.py, AcyclicGraphReachabilityIndex):*)
(* two dicts of sets, index_paths and inverted_index_paths, and two        *)
(* MultiSets keyed by (source, dest), index_path_counts and edge_counts.   *)
(* An object is a record of its four fields and of the exception a call    *)
(* raised on it, which stops the call with what was already written.       *)

IndexV1(paths, inverted_paths, path_counts, counts) ==
    [index_paths |-> paths,
     inverted_index_paths |-> inverted_paths,
     index_path_counts |-> path_counts,
     edge_counts |-> counts,
     raised |-> {}]

EmptyIndexV1 == IndexV1(EmptyDict, EmptyDict, EmptyDict, EmptyDict)

RaiseV1(idx, exception) == [idx EXCEPT !.raised = {exception}]

\* d.setdefault(key, set()).add(element)
setdefault_add(d, key, element) ==
    [k \in (DOMAIN d) \cup {key} |->
        IF k = key THEN (IF k \in DOMAIN d THEN d[k] ELSE {}) \cup {element}
        ELSE d[k]]

\* d[key].remove(element) raises KeyError without the key or the element
set_remove_raises(d, key, element) ==
    key \notin DOMAIN d \/ element \notin d[key]

\* d[key].remove(element); if not d[key]: del d[key]
set_remove(d, key, element) ==
    IF d[key] = {element} THEN dict_del(d, key)
    ELSE [d EXCEPT ![key] = @ \ {element}]

\* self.index_path_counts[(u, v)] += count and the two set insertions
_v1_add_path(idx, u, v, count) ==
    LET value == MultiSet_getitem(idx.index_path_counts, <<u, v>>) + count
    IN  IF idx.raised # {} THEN idx
        ELSE IF MultiSet_setitem_raises(value) THEN RaiseV1(idx, "ValueError")
        ELSE [idx EXCEPT
                 !.index_path_counts = MultiSet_setitem(@, <<u, v>>, value),
                 !.index_paths = setdefault_add(@, u, v),
                 !.inverted_index_paths = setdefault_add(@, v, u)]

\* self.index_path_counts[(u, v)] -= count and, when the count is then 0,
\* the removal of the pair from the two dicts of sets
_v1_remove_path(idx, u, v, count) ==
    LET value == MultiSet_getitem(idx.index_path_counts, <<u, v>>) - count
        counted == [idx EXCEPT
                       !.index_path_counts = MultiSet_setitem(@, <<u, v>>, value)]
        forward == [counted EXCEPT !.index_paths = set_remove(@, u, v)]
    IN  IF idx.raised # {} THEN idx
        ELSE IF MultiSet_setitem_raises(value) THEN RaiseV1(idx, "ValueError")
        ELSE IF value # 0 THEN counted
        ELSE IF set_remove_raises(idx.index_paths, u, v)
        THEN RaiseV1(counted, "KeyError")
        ELSE IF set_remove_raises(idx.inverted_index_paths, v, u)
        THEN RaiseV1(forward, "KeyError")
        ELSE [forward EXCEPT !.inverted_index_paths = set_remove(@, v, u)]

\* one loop over the items of a MultiSet of reachable nodes, in the order
\* given: pair(node) is the key whose count changes by the node's count
RECURSIVE _v1_loop(_, _, _, _, _)
_v1_loop(idx, order, reachable, pair, multiplier) ==
    IF order = <<>> THEN idx
    ELSE LET key == pair[Head(order)]
             count == reachable[Head(order)]
             next == IF multiplier > 0
                     THEN _v1_add_path(idx, key[1], key[2], count)
                     ELSE _v1_remove_path(idx, key[1], key[2], count)
         IN  _v1_loop(next, Tail(order), reachable, pair, multiplier)

\* reachable_from_node_from: the nodes that can reach node_from, with their
\* counts (a count of 0 is not stored by the MultiSet)
_v1_reachable_from_node_from(idx, node_from) ==
    LET nodes == dict_get(idx.inverted_index_paths, node_from, {})
    IN  [n \in {m \in nodes :
                   MultiSet_getitem(idx.index_path_counts, <<m, node_from>>) # 0}
            |-> idx.index_path_counts[<<n, node_from>>]]

\* reachable_from_node_to: the nodes reachable from node_to, with their counts
_v1_reachable_from_node_to(idx, node_to) ==
    LET nodes == dict_get(idx.index_paths, node_to, {})
    IN  [n \in {m \in nodes :
                   MultiSet_getitem(idx.index_path_counts, <<node_to, m>>) # 0}
            |-> idx.index_path_counts[<<node_to, n>>]]

\* the four assertions on the two MultiSets of reachable nodes
_v1_asserts(reachable_from_node_from, reachable_from_node_to, node_from, node_to) ==
    /\ MultiSet_getitem(reachable_from_node_from, node_from) = 0
    /\ MultiSet_getitem(reachable_from_node_from, node_to) = 0
    /\ MultiSet_getitem(reachable_from_node_to, node_from) = 0
    /\ MultiSet_getitem(reachable_from_node_to, node_to) = 0

\* self.edge_counts[(node_from, node_to)] += multiplier
_v1_count_edge(idx, node_from, node_to, multiplier) ==
    LET value == MultiSet_getitem(idx.edge_counts, <<node_from, node_to>>)
                     + multiplier
    IN  IF idx.raised # {} THEN idx
        ELSE IF MultiSet_setitem_raises(value) THEN RaiseV1(idx, "ValueError")
        ELSE [idx EXCEPT
                 !.edge_counts = MultiSet_setitem(@, <<node_from, node_to>>, value)]

\* the two loops and the direct edge of add_edge (multiplier 1) and of
\* remove_edge (multiplier -1), for every order of the two MultiSets
_v1_update(idx, node_from, node_to, multiplier) ==
    LET reachable_from_node_from == _v1_reachable_from_node_from(idx, node_from)
        reachable_from_node_to == _v1_reachable_from_node_to(idx, node_to)
        from_node_from == [to_node \in DOMAIN reachable_from_node_to |->
                              <<node_from, to_node>>]
        to_node_to == [from_node \in DOMAIN reachable_from_node_from |->
                          <<from_node, node_to>>]
        direct == [n \in {node_to} |-> 1]
    IN  IF ~_v1_asserts(reachable_from_node_from, reachable_from_node_to,
                        node_from, node_to)
        THEN {RaiseV1(idx, "AssertionError")}
        ELSE {_v1_count_edge(
                  _v1_loop(
                      _v1_loop(
                          _v1_loop(idx, to_order, reachable_from_node_to,
                                   from_node_from, multiplier),
                          from_order, reachable_from_node_from, to_node_to,
                          multiplier),
                      <<node_to>>, direct, [n \in {node_to} |-> <<node_from, n>>],
                      multiplier),
                  node_from, node_to, multiplier) :
                 to_order \in Orderings(DOMAIN reachable_from_node_to),
                 from_order \in Orderings(DOMAIN reachable_from_node_from)}

\* add_edge with the indirect edges between the nodes that reach node_from
\* and the nodes reachable from node_to left as they are
v1_add_edge(idx, node_from, node_to) ==
    IF node_from = node_to THEN {RaiseV1(idx, "AssertionError")}
    ELSE IF MultiSet_getitem(idx.index_path_counts, <<node_to, node_from>>) > 0
    THEN {RaiseV1(idx, "ValueError")}
    ELSE _v1_update(idx, node_from, node_to, 1)

v1_remove_edge(idx, node_from, node_to) ==
    IF node_from = node_to THEN {RaiseV1(idx, "AssertionError")}
    ELSE IF MultiSet_getitem(idx.edge_counts, <<node_from, node_to>>) = 0
    THEN {RaiseV1(idx, "ValueError")}
    ELSE _v1_update(idx, node_from, node_to, -1)

-----------------------------------------------------------------------------
(* The state machine: one action per public call.                          *)

Cur == Idx(direct_edge_counts, index_paths_counts, inverted_index_paths, {})

\* the call returns or raises, leaving the containers as the call left them
Return(out, op) ==
    /\ direct_edge_counts' = out.direct_edge_counts
    /\ index_paths_counts' = out.index_paths_counts
    /\ inverted_index_paths' = out.inverted_index_paths
    /\ result' \in (IF out.raised = {} THEN {"ok"} ELSE out.raised)
    /\ call' = op
    /\ ncalls' = ncalls + 1

Init ==
    /\ direct_edge_counts = EmptyDict
    /\ index_paths_counts = EmptyDict
    /\ inverted_index_paths = EmptyDict
    /\ call = "init"
    /\ result = "ok"
    /\ ncalls = 0
    /\ added = <<>>
    /\ self = "None"
    /\ args = <<>>
    /\ returned = "None"
    /\ frame = "None"

AddEdgeCall(node_from, node_to) ==
    \E out \in add_edge(Cur, node_from, node_to) : Return(out, "add_edge")

RemoveEdgeCall(node_from, node_to) ==
    \E out \in remove_edge(Cur, node_from, node_to) : Return(out, "remove_edge")

RemoveNodeCall(node) ==
    \E out \in remove_node(Cur, node) : Return(out, "remove_node")

\* Any calls with any arguments, whether they return or raise.
AddEdge ==
    /\ ncalls < MaxCalls
    /\ \E node_from, node_to \in Node : AddEdgeCall(node_from, node_to)
    /\ UNCHANGED <<added, object_vars>>

RemoveEdge ==
    /\ ncalls < MaxCalls
    /\ \E node_from, node_to \in Node : RemoveEdgeCall(node_from, node_to)
    /\ UNCHANGED <<added, object_vars>>

RemoveNode ==
    /\ ncalls < MaxCalls
    /\ \E node \in Node : RemoveNodeCall(node)
    /\ UNCHANGED <<added, object_vars>>

Next == AddEdge \/ RemoveEdge \/ RemoveNode

Spec == Init /\ [][Next]_vars

\* The same calls in runs that are one call longer.
AddEdgeLong ==
    /\ ncalls < MaxLongCalls
    /\ \E node_from, node_to \in Node : AddEdgeCall(node_from, node_to)
    /\ UNCHANGED <<added, object_vars>>

RemoveEdgeLong ==
    /\ ncalls < MaxLongCalls
    /\ \E node_from, node_to \in Node : RemoveEdgeCall(node_from, node_to)
    /\ UNCHANGED <<added, object_vars>>

RemoveNodeLong ==
    /\ ncalls < MaxLongCalls
    /\ \E node \in Node : RemoveNodeCall(node)
    /\ UNCHANGED <<added, object_vars>>

NextLong == AddEdgeLong \/ RemoveEdgeLong \/ RemoveNodeLong

SpecLong == Init /\ [][NextLong]_vars

\* Runs made of add_edge and remove_edge calls that all return normally.
AddEdgeOk ==
    /\ ncalls < MaxOkCalls
    /\ \E node_from, node_to \in Node : AddEdgeCall(node_from, node_to)
    /\ result' = "ok"
    /\ UNCHANGED <<added, object_vars>>

RemoveEdgeOk ==
    /\ ncalls < MaxOkCalls
    /\ \E node_from, node_to \in Node : RemoveEdgeCall(node_from, node_to)
    /\ result' = "ok"
    /\ UNCHANGED <<added, object_vars>>

NextSuccessful == AddEdgeOk \/ RemoveEdgeOk

SpecSuccessful == Init /\ [][NextSuccessful]_vars

\* Any calls on nodes whose names are not empty, whether they return or raise.
MaxNamedCalls == 4

NamedNode == Node \ {""}

AddEdgeNamed ==
    /\ ncalls < MaxNamedCalls
    /\ \E node_from, node_to \in NamedNode : AddEdgeCall(node_from, node_to)
    /\ UNCHANGED <<added, object_vars>>

RemoveEdgeNamed ==
    /\ ncalls < MaxNamedCalls
    /\ \E node_from, node_to \in NamedNode : RemoveEdgeCall(node_from, node_to)
    /\ UNCHANGED <<added, object_vars>>

RemoveNodeNamed ==
    /\ ncalls < MaxNamedCalls
    /\ \E node \in NamedNode : RemoveNodeCall(node)
    /\ UNCHANGED <<added, object_vars>>

NextNamed == AddEdgeNamed \/ RemoveEdgeNamed \/ RemoveNodeNamed

SpecNamed == Init /\ [][NextNamed]_vars

\* Runs of add_edge, remove_edge and remove_node calls that all return normally.
RemoveNodeOk ==
    /\ ncalls < MaxOkCalls
    /\ \E node \in Node : RemoveNodeCall(node)
    /\ result' = "ok"
    /\ UNCHANGED <<added, object_vars>>

NextSuccessfulNodes == AddEdgeOk \/ RemoveEdgeOk \/ RemoveNodeOk

SpecSuccessfulNodes == Init /\ [][NextSuccessfulNodes]_vars

\* Runs that add edges and then take them back, last added first: every
\* add_edge returns normally, and the run ends at the first exception.
AddEdgePush ==
    /\ call \in {"init", "add_edge"}
    /\ Len(added) < MaxAdded
    /\ \E node_from, node_to \in Node :
          /\ AddEdgeCall(node_from, node_to)
          /\ added' = Append(added, <<node_from, node_to>>)
    /\ result' = "ok"
    /\ UNCHANGED object_vars

RemoveEdgePop ==
    /\ added # <<>>
    /\ result = "ok"
    /\ RemoveEdgeCall(added[Len(added)][1], added[Len(added)][2])
    /\ added' = SubSeq(added, 1, Len(added) - 1)
    /\ UNCHANGED object_vars

NextInverse == AddEdgePush \/ RemoveEdgePop

SpecInverse == Init /\ [][NextInverse]_vars

\* Runs of add_edge calls with any arguments; the run ends at the first
\* exception.
AddEdgeNext ==
    /\ ncalls < MaxAddCalls
    /\ result = "ok"
    /\ \E node_from, node_to \in Node : AddEdgeCall(node_from, node_to)
    /\ UNCHANGED <<added, object_vars>>

NextAdds == AddEdgeNext

SpecAdds == Init /\ [][NextAdds]_vars

\* Runs of any calls, with the three reads of the index among them.
ReadReturn(out, op, arguments) ==
    /\ direct_edge_counts' = out.index.direct_edge_counts
    /\ index_paths_counts' = out.index.index_paths_counts
    /\ inverted_index_paths' = out.index.inverted_index_paths
    /\ result' \in (IF out.raised = {} THEN {"ok"} ELSE out.raised)
    /\ returned' = out.value
    /\ call' = op
    /\ args' = arguments
    /\ ncalls' = ncalls + 1
    /\ UNCHANGED <<added, self, frame>>

CheckReachable ==
    /\ ncalls < MaxReadCalls
    /\ \E node_from, node_to \in Node :
          ReadReturn(check_reachable_in(Cur, node_from, node_to),
                     "check_reachable", <<node_from, node_to>>)

LookupReachable ==
    /\ ncalls < MaxReadCalls
    /\ \E node_from \in Node :
          ReadReturn(lookup_reachable(Cur, node_from), "lookup_reachable", <<node_from>>)

LookupReverse ==
    /\ ncalls < MaxReadCalls
    /\ \E node_to \in Node :
          ReadReturn(lookup_reverse(Cur, node_to), "lookup_reverse", <<node_to>>)

AddEdgeRead ==
    /\ ncalls < MaxReadCalls
    /\ \E node_from, node_to \in Node : AddEdgeCall(node_from, node_to)
    /\ UNCHANGED <<added, object_vars>>

RemoveEdgeRead ==
    /\ ncalls < MaxReadCalls
    /\ \E node_from, node_to \in Node : RemoveEdgeCall(node_from, node_to)
    /\ UNCHANGED <<added, object_vars>>

RemoveNodeRead ==
    /\ ncalls < MaxReadCalls
    /\ \E node \in Node : RemoveNodeCall(node)
    /\ UNCHANGED <<added, object_vars>>

NextReads ==
    \/ AddEdgeRead \/ RemoveEdgeRead \/ RemoveNodeRead
    \/ CheckReachable \/ LookupReachable \/ LookupReverse

SpecReads == Init /\ [][NextReads]_vars

\* Calls on one MultiSet, which starts empty; the index is not used.
index_vars == <<direct_edge_counts, index_paths_counts, inverted_index_paths,
                ncalls, added, frame>>

InitMultiSet ==
    /\ direct_edge_counts = EmptyDict
    /\ index_paths_counts = EmptyDict
    /\ inverted_index_paths = EmptyDict
    /\ call = "init"
    /\ result = "ok"
    /\ ncalls = 0
    /\ added = <<>>
    /\ self = EmptyDict
    /\ args = <<>>
    /\ returned = "None"
    /\ frame = "None"

MethodReturn(out, op, arguments) ==
    /\ self' = out.self
    /\ result' \in (IF out.raised = {} THEN {"ok"} ELSE out.raised)
    /\ returned' = out.value
    /\ call' = op
    /\ args' = arguments
    /\ UNCHANGED index_vars

SetItemCall(key, value) ==
    MethodReturn(MultiSet___setitem__(self, key, value), "__setitem__", <<key, value>>)

GetItemCall(key) ==
    MethodReturn(MultiSet___getitem__(self, key), "__getitem__", <<key>>)

IterCall == MethodReturn(MultiSet___iter__(self), "__iter__", <<>>)

AddCall(other) ==
    \E out \in MultiSet___add__(self, other) :
        MethodReturn(out, "__add__", <<out.other>>)

SubCall(other) ==
    \E out \in MultiSet___sub__(self, other) :
        MethodReturn(out, "__sub__", <<out.other>>)

SetItem == \E key \in Key, value \in (-MaxCount)..MaxCount : SetItemCall(key, value)

\* keys read: those of Key and one that is never assigned
GetItem == \E key \in Key \cup {"z"} : GetItemCall(key)

Iter == IterCall

Add == \E other \in MultiSets : AddCall(other)

Sub == \E other \in MultiSets : SubCall(other)

NextMultiSet == SetItem \/ GetItem \/ Iter \/ Add \/ Sub

SpecMultiSet == InitMultiSet /\ [][NextMultiSet]_vars

\* One call of match on a pattern, which is any EntityPattern or any
\* RelationalTriplePattern over the field values; the argument is any entity
\* or any triple.
InitPattern ==
    /\ direct_edge_counts = EmptyDict
    /\ index_paths_counts = EmptyDict
    /\ inverted_index_paths = EmptyDict
    /\ call = "init"
    /\ result = "ok"
    /\ ncalls = 0
    /\ added = <<>>
    /\ self \in EntityPatterns \cup RelationalTriplePatterns
    /\ args = <<>>
    /\ returned = None
    /\ frame = "None"

EntityMatchCall(arg) ==
    MethodReturn(EntityPattern_match(self, arg), "EntityPattern.match", <<arg>>)

TripleMatchCall(arg) ==
    MethodReturn(RelationalTriplePattern_match(self, arg),
                 "RelationalTriplePattern.match", <<arg>>)

\* the entity of the first triple stands for an argument of the wrong class
EntityMatch ==
    /\ call = "init"
    /\ self.class = "EntityPattern"
    /\ \E arg \in Entities \cup {CHOOSE t \in RelationalTriples : TRUE} :
          EntityMatchCall(arg)

TripleMatch ==
    /\ call = "init"
    /\ self.class = "RelationalTriplePattern"
    /\ \E arg \in RelationalTriples \cup {CHOOSE e \in Entities : TRUE} :
          TripleMatchCall(arg)

NextPattern == EntityMatch \/ TripleMatch

SpecPattern == InitPattern /\ [][NextPattern]_vars

\* One call of replace on a RelationalTriplePattern whose fields may also be
\* the empty string; the argument is any triple, or an entity for an
\* argument of the wrong class.
InitReplace ==
    /\ direct_edge_counts = EmptyDict
    /\ index_paths_counts = EmptyDict
    /\ inverted_index_paths = EmptyDict
    /\ call = "init"
    /\ result = "ok"
    /\ ncalls = 0
    /\ added = <<>>
    /\ self \in ReplacePatterns
    /\ args = <<>>
    /\ returned = None
    /\ frame = "None"

TripleReplaceCall(arg) ==
    MethodReturn(RelationalTriplePattern_replace(self, arg),
                 "RelationalTriplePattern.replace", <<arg>>)

TripleReplace ==
    /\ call = "init"
    /\ \E arg \in RelationalTriples \cup {CHOOSE e \in Entities : TRUE} :
          TripleReplaceCall(arg)

NextReplace == TripleReplace

SpecReplace == InitReplace /\ [][NextReplace]_vars

\* ---- runs of one RuleSet.apply generator, consumed to its end ----

InitRuleSet ==
    /\ direct_edge_counts = EmptyDict
    /\ index_paths_counts = EmptyDict
    /\ inverted_index_paths = EmptyDict
    /\ call = "init"
    /\ result = "ok"
    /\ ncalls = 0
    /\ added = <<>>
    /\ self \in RuleSets
    /\ args = <<>>
    /\ returned = <<>>
    /\ frame = "None"

\* the generator moves to frame f having yielded the triples of `yielded`
Generator(f, yielded) ==
    /\ frame' = f
    /\ returned' = yielded
    /\ UNCHANGED <<containers, call, result, ncalls, added, self, args>>

\* the call and the first next(): lines 147-157
RuleSetApply ==
    /\ call = "init"
    /\ \E relational_triple \in RuleTriples :
          /\ call' = "RuleSet.apply"
          /\ args' = <<relational_triple>>
          /\ frame' = RuleSet_apply(self.rules_and_filters, relational_triple)
          /\ returned' = <<>>
          /\ UNCHANGED <<containers, result, ncalls, added, self>>

\* lines 158-161: a triple already processed is popped and dropped
PopProcessed ==
    /\ call = "RuleSet.apply"
    /\ frame.pc = "while"
    /\ \E relational_triple \in frame.unprocessed :
          /\ relational_triple \in frame.processed
          /\ Generator(RuleSet_pop(frame, relational_triple), returned)

\* lines 158-162: a new triple is popped and yielded
PopYield ==
    /\ call = "RuleSet.apply"
    /\ frame.pc = "while"
    /\ \E relational_triple \in frame.unprocessed :
          LET f == RuleSet_pop(frame, relational_triple)
          IN  /\ relational_triple \notin f.processed
              /\ Generator([f EXCEPT !.pc = "yield"],
                           Append(returned, relational_triple))

\* lines 164-169: the consumer asks for the next triple
Resume ==
    /\ call = "RuleSet.apply"
    /\ frame.pc = "yield"
    /\ Generator(RuleSet_resume(self.rules_and_filters, frame), returned)

\* line 158 with nothing left: the generator returns
StopIteration ==
    /\ call = "RuleSet.apply"
    /\ frame.pc = "while"
    /\ frame.unprocessed = {}
    /\ Generator([frame EXCEPT !.pc = "done"], returned)

NextRuleSet ==
    \/ RuleSetApply
    \/ PopProcessed
    \/ PopYield
    \/ Resume
    \/ StopIteration

SpecRuleSet == InitRuleSet /\ [][NextRuleSet]_vars

\* the consumer iterates the generator to its end (list(...), a for loop):
\* a step of the generator that can be taken is taken
SpecRuleSetFair == SpecRuleSet /\ WF_vars(NextRuleSet)

\* ---- triples written to the index, with and without the rules ----

InitScenario ==
    /\ direct_edge_counts = EmptyDict
    /\ index_paths_counts = EmptyDict
    /\ inverted_index_paths = EmptyDict
    /\ call = "init"
    /\ result = "ok"
    /\ ncalls = 0
    /\ added = <<>>
    /\ self = ScenarioRuleSet
    /\ args = <<>>
    /\ returned = <<>>
    /\ frame = "None"

\* the list without the first entry equal to t
RECURSIVE Without(_, _)
Without(triples, t) ==
    IF triples = <<>> THEN <<>>
    ELSE IF Head(triples) = t THEN Tail(triples)
    ELSE <<Head(triples)>> \o Without(Tail(triples), t)

\* for s in self.apply(t): index.add_edge(s.node_from, s.node_to)
WriteCall(t) ==
    \E yielded \in RuleSet_apply_lists(self.rules_and_filters, t) :
        \E out \in add_edges({Cur}, yielded) :
            /\ Return(out, "write")
            /\ args' = <<t>>
            /\ returned' = yielded
            /\ added' = IF out.raised = {} THEN added \o yielded ELSE added

\* index.add_edge(t.node_from, t.node_to)
AddTripleCall(t) ==
    /\ AddEdgeCall(Node_key(RelationalTriple_node_from(t)),
                   Node_key(RelationalTriple_node_to(t)))
    /\ args' = <<t>>
    /\ added' = IF result' = "ok" THEN Append(added, t) ELSE added

\* index.remove_edge(t.node_from, t.node_to)
DeleteTripleCall(t) ==
    /\ RemoveEdgeCall(Node_key(RelationalTriple_node_from(t)),
                      Node_key(RelationalTriple_node_to(t)))
    /\ args' = <<t>>
    /\ added' = IF result' = "ok" THEN Without(added, t) ELSE added

Write ==
    /\ ncalls < MaxWrites
    /\ \E t \in ScenarioTriples : WriteCall(t)
    /\ UNCHANGED <<self, frame>>

AddTriple ==
    /\ ncalls < MaxWrites
    /\ \E t \in ScenarioTriples : AddTripleCall(t)
    /\ UNCHANGED <<self, returned, frame>>

DeleteTriple ==
    /\ ncalls < MaxWrites
    /\ \E t \in ScenarioTriples : DeleteTripleCall(t)
    /\ UNCHANGED <<self, returned, frame>>

NextScenario == Write \/ AddTriple \/ DeleteTriple

SpecScenario == InitScenario /\ [][NextScenario]_vars

\* ---- the database index, alone and side by side with the index in memory ----

\* Bound on the length of a run of calls on the database.
MaxDbCalls == 4

\* Bound on the length of a run of calls made on both indexes.
MaxBothCalls == 4

\* the nodes of the runs on the database alone
DbNodeId == {"a", "b", "c"}

InitDatabase ==
    /\ direct_edge_counts = EmptyDict
    /\ index_paths_counts = EmptyDict
    /\ inverted_index_paths = EmptyDict
    /\ call = "init"
    /\ result = "ok"
    /\ ncalls = 0
    /\ added = <<>>
    /\ self = EmptyDatabase
    /\ args = <<>>
    /\ returned = [result |-> "ok", commits |-> <<>>]
    /\ frame = "None"

\* the call on the database returns or raises: self is the database it
\* leaves, returned its outcome and the databases it committed
DbReturn(out, arguments) ==
    /\ self' = out.database
    /\ returned' = [result |-> IF out.raised = {} THEN "ok" ELSE Value(out.raised),
                    commits |-> out.commits]
    /\ args' = arguments

\* a call on the database alone
DbCall(out, op, arguments) ==
    /\ DbReturn(out, arguments)
    /\ result' = returned'.result
    /\ call' = op
    /\ ncalls' = ncalls + 1
    /\ UNCHANGED <<containers, added, frame>>

DbAddEdge ==
    /\ ncalls < MaxDbCalls
    /\ \E subject_id, object_id \in DbNodeId :
          DbCall(db_add_edge(self, subject_id, object_id), "add_edge",
                 <<subject_id, object_id>>)

DbRemoveEdge ==
    /\ ncalls < MaxDbCalls
    /\ \E subject_id, object_id \in DbNodeId :
          DbCall(db_remove_edge(self, subject_id, object_id), "remove_edge",
                 <<subject_id, object_id>>)

DbRemoveNode ==
    /\ ncalls < MaxDbCalls
    /\ \E id \in DbNodeId :
          DbCall(db_remove_node(self, id), "remove_node", <<id>>)

\* node(..., implicit=False): the caller marks a node explicit
DbMarkNode ==
    /\ ncalls < MaxDbCalls
    /\ \E id \in DbNodeId :
          DbCall(db_node(self, id, Some(FALSE), TRUE), "node", <<id>>)

NextDatabase == DbAddEdge \/ DbRemoveEdge \/ DbRemoveNode \/ DbMarkNode

SpecDatabase == InitDatabase /\ [][NextDatabase]_vars

\* the same call on the index in memory and on the database
AddEdgeBoth ==
    /\ ncalls < MaxBothCalls
    /\ \E node_from, node_to \in Node :
          /\ AddEdgeCall(node_from, node_to)
          /\ DbReturn(db_add_edge(self, node_from, node_to),
                      <<node_from, node_to>>)
    /\ UNCHANGED <<added, frame>>

RemoveEdgeBoth ==
    /\ ncalls < MaxBothCalls
    /\ \E node_from, node_to \in Node :
          /\ RemoveEdgeCall(node_from, node_to)
          /\ DbReturn(db_remove_edge(self, node_from, node_to),
                      <<node_from, node_to>>)
    /\ UNCHANGED <<added, frame>>

RemoveNodeBoth ==
    /\ ncalls < MaxBothCalls
    /\ \E id \in Node :
          /\ RemoveNodeCall(id)
          /\ DbReturn(db_remove_node(self, id), <<id>>)
    /\ UNCHANGED <<added, frame>>

NextRefinement == AddEdgeBoth \/ RemoveEdgeBoth \/ RemoveNodeBoth

SpecRefinement == InitDatabase /\ [][NextRefinement]_vars

\* ---- the first index version, on its own ----

\* Bound on the length of a run of calls on the first index version.
MaxV1Calls == 4

InitV1 ==
    /\ direct_edge_counts = EmptyDict
    /\ index_paths_counts = EmptyDict
    /\ inverted_index_paths = EmptyDict
    /\ call = "init"
    /\ result = "ok"
    /\ ncalls = 0
    /\ added = <<>>
    /\ self = EmptyIndexV1
    /\ args = <<>>
    /\ returned = "None"
    /\ frame = "None"

\* the call returns or raises on self, which keeps what the call wrote; the
\* next call finds the fields without the exception
V1Return(out, op, arguments) ==
    /\ self' = [out EXCEPT !.raised = {}]
    /\ result' \in (IF out.raised = {} THEN {"ok"} ELSE out.raised)
    /\ call' = op
    /\ args' = arguments
    /\ ncalls' = ncalls + 1
    /\ UNCHANGED <<containers, added, returned, frame>>

\* calls that return normally
V1AddEdgeOk ==
    /\ ncalls < MaxV1Calls
    /\ \E node_from, node_to \in NamedNode :
          \E out \in v1_add_edge(self, node_from, node_to) :
              /\ out.raised = {}
              /\ V1Return(out, "add_edge", <<node_from, node_to>>)

V1RemoveEdgeOk ==
    /\ ncalls < MaxV1Calls
    /\ \E node_from, node_to \in NamedNode :
          \E out \in v1_remove_edge(self, node_from, node_to) :
              /\ out.raised = {}
              /\ V1Return(out, "remove_edge", <<node_from, node_to>>)

NextV1 == V1AddEdgeOk \/ V1RemoveEdgeOk

SpecV1 == InitV1 /\ [][NextV1]_vars

-----------------------------------------------------------------------------
(* Reading the state.                                                      *)

\* index_paths_counts[u][v], 0 when absent
PathCount(u, v) ==
    IF u \in DOMAIN index_paths_counts
    THEN MultiSet_getitem(index_paths_counts[u], v) ELSE 0

DirectCount(u, v) == MultiSet_getitem(direct_edge_counts, <<u, v>>)

RECURSIVE SumOver(_, _)
SumOver(S, f) ==
    IF S = {} THEN 0
    ELSE LET x == CHOOSE y \in S : TRUE IN f[x] + SumOver(S \ {x}, f)

\* number of directed paths from u to v of at most n edges in the multigraph
\* of direct edges, parallel edges counted separately (the empty path counts
\* when u = v)
RECURSIVE WalksUpTo(_, _, _)
WalksUpTo(u, v, n) ==
    IF u = v THEN 1
    ELSE IF n = 0 THEN 0
    ELSE SumOver(Node, [w \in Node |->
            IF DirectCount(u, w) = 0 THEN 0
            ELSE DirectCount(u, w) * WalksUpTo(w, v, n - 1)])

\* number of directed paths of at least one edge from u to v
NumPaths(u, v) ==
    SumOver(Node, [w \in Node |->
        IF DirectCount(u, w) = 0 THEN 0
        ELSE DirectCount(u, w) * WalksUpTo(w, v, Cardinality(Node) - 1)])

-----------------------------------------------------------------------------
(* Properties.                                                             *)

\* C1: after any run of successful add_edge and remove_edge calls, for all
\* distinct u, v the stored index_paths_counts[u][v] (0 when absent) is the
\* number of distinct directed paths from u to v in the multigraph of
\* direct_edge_counts, parallel edges counted separately.
C1_PathCountsExact ==
    \A u, v \in Node : u # v => PathCount(u, v) = NumPaths(u, v)

\* the diamond a->b, a->c, b->d, c->d with two paths from a to d
C1_Diamond ==
    /\ direct_edge_counts =
          [e \in {<<"a", "b">>, <<"a", "c">>, <<"b", "d">>, <<"c", "d">>} |-> 1]
    /\ PathCount("a", "d") = 2

\* C2: in every state reached by add_edge and remove_edge calls,
\* check_reachable(u, v) is true exactly when the direct edges contain a
\* directed path from u to v.
C2_CheckReachableIffPath ==
    \A u, v \in Node : check_reachable(u, v) <=> NumPaths(u, v) > 0

\* C3: in every state reached by add_edge, remove_edge and remove_node
\* calls, accepted or rejected, no node is a key of its own
\* index_paths_counts entry and no two nodes reach each other.
C3_Acyclic ==
    /\ \A u \in DOMAIN index_paths_counts : u \notin DOMAIN index_paths_counts[u]
    /\ \A u, v \in Node : ~(PathCount(u, v) > 0 /\ PathCount(v, u) > 0)

\* C4: after every public call, v is a key of index_paths_counts[u] exactly
\* when u is a member of inverted_index_paths[v].
C4_ForwardInverseAgree ==
    \A u, v \in Node :
       (u \in DOMAIN index_paths_counts /\ v \in DOMAIN index_paths_counts[u])
       <=> (v \in DOMAIN inverted_index_paths /\ u \in inverted_index_paths[v])

\* a removal has deleted closure entries and others remain
C4_EntriesRemoved ==
    /\ call \in {"remove_edge", "remove_node"}
    /\ \E u, v \in Node : u # v /\ PathCount(u, v) = 0 /\ PathCount(v, u) = 0
                          /\ u \in DOMAIN index_paths_counts
                          /\ v \in DOMAIN inverted_index_paths
    /\ \E v \in DOMAIN inverted_index_paths : inverted_index_paths[v] # {}

\* C5: after every public call, index_paths_counts[u][v] is at least
\* direct_edge_counts[(u, v)] for every pair (u, v).
C5_DirectSubsumed ==
    \A e \in Edge : PathCount(e[1], e[2]) >= DirectCount(e[1], e[2])

\* C6: direct_edge_counts and every inner MultiSet of index_paths_counts
\* hold no key with a zero or negative value.
C6_PositiveCountsOnly ==
    /\ \A e \in DOMAIN direct_edge_counts : direct_edge_counts[e] > 0
    /\ \A u \in DOMAIN index_paths_counts :
          \A v \in DOMAIN index_paths_counts[u] : index_paths_counts[u][v] > 0

\* a successful remove_edge took the last copy of some direct edge away
\* while other direct edges and closure entries remain
C6_CountDroppedToZero ==
    /\ call = "remove_edge"
    /\ result = "ok"
    /\ direct_edge_counts # EmptyDict
    /\ \E u, v \in Node : u # v /\ PathCount(u, v) = 0
                          /\ u \in DOMAIN index_paths_counts
                          /\ v \in DOMAIN inverted_index_paths

\* C7: add_edge(u, v) with u # v and index_paths_counts[v][u] > 0 raises
\* ValueError and leaves the three containers as they were.
C7_CycleRejected ==
    [][\A u, v \in Node :
          (call' = "add_edge" /\ u # v /\ PathCount(v, u) > 0 /\ AddEdgeCall(u, v))
          => (result' = "ValueError" /\ UNCHANGED containers)]_vars

\* an add_edge has been rejected for closing a cycle
C7_CycleRejectedSeen ==
    /\ call = "add_edge"
    /\ result = "ValueError"
    /\ \E u, v \in Node : u # v /\ PathCount(v, u) > 0

\* C8: remove_edge(u, v) with u # v and no direct edge (u, v) raises
\* ValueError and leaves the three containers as they were, also when a
\* path from u to v exists or when u or v is unknown to the index.
C8_MissingEdgeRejected ==
    [][\A u, v \in Node :
          (call' = "remove_edge" /\ u # v /\ DirectCount(u, v) = 0 /\ RemoveEdgeCall(u, v))
          => (result' = "ValueError" /\ UNCHANGED containers)]_vars

\* a remove_edge has been rejected while a path without a direct edge exists
C8_MissingEdgeRejectedSeen ==
    /\ call = "remove_edge"
    /\ result = "ValueError"
    /\ \E u, v \in Node : u # v /\ DirectCount(u, v) = 0 /\ PathCount(u, v) > 0

\* C9: add_edge(u, u) and remove_edge(u, u) fail with the error kind of the
\* cycle and missing-edge errors (ValueError) and leave the index unchanged.
C9_SelfEdgeDomainError ==
    [][\A u \in Node :
          (AddEdgeCall(u, u) \/ RemoveEdgeCall(u, u))
          => (result' = "ValueError" /\ UNCHANGED containers)]_vars

\* C10: a call of add_edge, remove_edge or remove_node that raises leaves
\* the three containers equal to their values before the call.
C10_FailureAtomic ==
    [][result' # "ok" => UNCHANGED containers]_vars

\* C11 (inverse law): after any sequence of add_edge calls that returned
\* normally on an empty index, remove_edge of the same edges in reverse order
\* returns normally at every step, and once all are removed the three
\* containers are empty, with no empty inner MultiSet or set left behind.
C11_InverseLaw ==
    /\ call = "remove_edge" => result = "ok"
    /\ added = <<>> =>
          /\ direct_edge_counts = EmptyDict
          /\ index_paths_counts = EmptyDict
          /\ inverted_index_paths = EmptyDict

\* three edges were added and all three taken back
C11_AllTakenBack ==
    /\ call = "remove_edge"
    /\ result = "ok"
    /\ added = <<>>
    /\ ncalls >= 6

\* C12 as stated (order independence of adds): whenever the edges added so
\* far together with (u, v) form a DAG multigraph, add_edge(u, v) returns
\* normally and the index equals the one built from the same multiset of
\* edges in the fixed order; so any two orders of the list give equal indexes.
C12_AnyDagAnyOrder ==
    [][\A u, v \in Node :
          (call' = "add_edge" /\ u # v /\ NumPaths(v, u) = 0 /\ AddEdgeCall(u, v))
          => /\ result' = "ok"
             /\ create_index(original_edges(direct_edge_counts')) =
                    {Idx(direct_edge_counts', index_paths_counts',
                         inverted_index_paths', {})}]_vars

\* C12 for lists in which no edge starts at a node with an empty name:
\* add_edge returns normally in every order of the list and the indexes of
\* all orders are equal.
C12_OrderIndependent ==
    [][\A u, v \in Node :
          (call' = "add_edge" /\ u # "" /\ u # v /\ NumPaths(v, u) = 0
           /\ AddEdgeCall(u, v))
          => /\ result' = "ok"
             /\ create_index(original_edges(direct_edge_counts')) =
                    {Idx(direct_edge_counts', index_paths_counts',
                         inverted_index_paths', {})}]_vars

\* the chain a -> b -> c -> d was built (in one of its orders) and a reaches d
C12_ChainBuilt ==
    /\ call = "add_edge"
    /\ result = "ok"
    /\ DOMAIN direct_edge_counts = {<<"a", "b">>, <<"b", "c">>, <<"c", "d">>}
    /\ PathCount("a", "d") = 1

\* C13 (history independence): after any add_edge and remove_edge calls that
\* all returned normally, the index equals the index built on an empty index
\* by adding just the direct edges that remain, each as often as its count:
\* edges and nodes that were added and taken back leave no trace.
C13_HistoryIndependent ==
    create_index(original_edges(direct_edge_counts)) = {Cur}

\* only direct edges a -> b remain after five calls: at least two additions
\* (such as a detour a -> c -> b) were taken back
C13_DetourTakenBack ==
    /\ call = "remove_edge"
    /\ result = "ok"
    /\ ncalls = 5
    /\ DOMAIN direct_edge_counts = {<<"a", "b">>}

\* the set of destinations stored under each source of index_paths_counts
PathKeys == [u \in DOMAIN index_paths_counts |-> DOMAIN index_paths_counts[u]]

\* C14 (multi-edges): add_edge(u, v) called when the direct edge (u, v)
\* already has count >= 1, and remove_edge(u, v) called when it has count
\* >= 2, change counts only: the keys of direct_edge_counts, the keys of
\* index_paths_counts and of its inner MultiSets, and the whole of
\* inverted_index_paths stay as they were.
C14_MultiEdgeCountsOnly ==
    [][\A u, v \in Node :
          (\/ call' = "add_edge" /\ DirectCount(u, v) >= 1 /\ AddEdgeCall(u, v)
           \/ call' = "remove_edge" /\ DirectCount(u, v) >= 2 /\ RemoveEdgeCall(u, v))
          => /\ DOMAIN direct_edge_counts' = DOMAIN direct_edge_counts
             /\ PathKeys' = PathKeys
             /\ inverted_index_paths' = inverted_index_paths]_vars

\* the example of C14: after add(a,b), add(b,c), add(b,c), add(c,d) and
\* remove(b,c) the index is the one of the chain a -> b -> c -> d
C14_Example ==
    /\ call = "remove_edge"
    /\ result = "ok"
    /\ ncalls = 5
    /\ direct_edge_counts =
          [e \in {<<"a", "b">>, <<"b", "c">>, <<"c", "d">>} |-> 1]
    /\ index_paths_counts["a"] = [n \in {"b", "c", "d"} |-> 1]
    /\ index_paths_counts["b"] = [n \in {"c", "d"} |-> 1]

\* the direct edges that do not start or end at node n
EdgesNotAt(n) ==
    [e \in {e \in DOMAIN direct_edge_counts : e[1] # n /\ e[2] # n}
       |-> direct_edge_counts[e]]

\* C15: remove_node(n), called in any reachable state, leaves the index that
\* create_index builds from exactly the prior direct edges not incident on n:
\* every direct edge at n is gone, n is in no key and no value of the three
\* containers, and all other paths keep their counts.
C15_RemoveNodeRebuilds ==
    [][\A n \in Node :
          (call' = "remove_node" /\ RemoveNodeCall(n))
          => create_index(original_edges(EdgesNotAt(n))) =
                {Idx(direct_edge_counts', index_paths_counts',
                     inverted_index_paths', {})}]_vars

\* remove_node was the third call and left a -> b alone: it removed the one
\* other direct edge, which was incident on the node, with its paths
C15_NodeRemoved ==
    /\ call = "remove_node"
    /\ result = "ok"
    /\ ncalls = 3
    /\ direct_edge_counts = [e \in {<<"a", "b">>} |-> 1]

\* the last call was one of the three reads
IsRead(op) == op \in {"check_reachable", "lookup_reachable", "lookup_reverse"}

\* the same read made again on the index as it is now
ReadAgain ==
    IF call = "check_reachable" THEN check_reachable_in(Cur, args[1], args[2])
    ELSE IF call = "lookup_reachable" THEN lookup_reachable(Cur, args[1])
    ELSE lookup_reverse(Cur, args[1])

\* C16 as stated (reads do not mutate): check_reachable, lookup_reachable and
\* lookup_reverse, for any arguments, leave the three containers unchanged,
\* return an answer, and return the same answer when the call is repeated.
C16_ReadsAnswerAndDoNotMutate ==
    [][IsRead(call') =>
          /\ UNCHANGED containers
          /\ result' = "ok"
          /\ ReadAgain'.raised = {}
          /\ ReadAgain'.value = returned']_vars

\* C16 without the answer of lookup_reverse for a node that nothing reaches:
\* every read leaves the three containers unchanged (no default entry is
\* inserted), and a read that returned returns the same answer when repeated.
C16_ReadsDoNotMutate ==
    [][IsRead(call') =>
          /\ UNCHANGED containers
          /\ result' = "ok" => /\ ReadAgain'.raised = {}
                               /\ ReadAgain'.value = returned']_vars

\* lookup_reverse returned the two nodes that reach its argument
C16_ReverseLookupAnswered ==
    /\ call = "lookup_reverse"
    /\ result = "ok"
    /\ Cardinality(returned) = 2

\* C17 (MultiSet assignment): m[k] = 0 deletes k and is no error when k is
\* absent; m[k] = v with v < 0 raises ValueError and leaves m as it was;
\* m[k] = v with v > 0 stores v; reading a missing key gives 0 and inserts
\* nothing; iteration gives exactly the keys whose stored count is positive,
\* which are all the keys stored.
C17_AssignmentContract ==
    [][/\ \A k \in Key, v \in (-MaxCount)..MaxCount :
             (call' = "__setitem__" /\ SetItemCall(k, v)) =>
                 /\ v = 0 => /\ result' = "ok"
                             /\ self' = [j \in DOMAIN self \ {k} |-> self[j]]
                 /\ v < 0 => /\ result' = "ValueError"
                             /\ self' = self
                 /\ v > 0 => /\ result' = "ok"
                             /\ DOMAIN self' = DOMAIN self \cup {k}
                             /\ self'[k] = v
                             /\ \A j \in DOMAIN self \ {k} : self'[j] = self[j]
       /\ \A k \in Key \cup {"z"} :
             (call' = "__getitem__" /\ GetItemCall(k)) =>
                 /\ result' = "ok"
                 /\ self' = self
                 /\ k \notin DOMAIN self => returned' = 0
                 /\ k \in DOMAIN self => returned' = self[k]
       /\ call' = "__iter__" =>
                 /\ result' = "ok"
                 /\ self' = self
                 /\ returned' = {k \in DOMAIN self : self[k] > 0}
                 /\ returned' = DOMAIN self
      ]_vars

\* x was assigned 0 and is not a key, while y stays stored
C17_KeyDeletedByZero ==
    /\ call = "__setitem__"
    /\ result = "ok"
    /\ args = <<"x", 0>>
    /\ DOMAIN self = {"y"}

\* C18 (MultiSet arithmetic): a - b raises ValueError whenever some key has
\* b[k] > a[k] (no clamping to zero), and otherwise returns the key-wise
\* difference without the keys whose difference is 0; a + b returns the
\* key-wise sum; neither changes a or b.
C18_ArithmeticStrict ==
    [][\A b \in MultiSets :
        /\ (call' = "__sub__" /\ SubCall(b)) =>
              /\ self' = self
              /\ args' = <<b>>
              /\ result' = IF \E k \in DOMAIN b : b[k] > MultiSet_getitem(self, k)
                           THEN "ValueError" ELSE "ok"
              /\ result' = "ok" =>
                    returned' = [k \in {j \in DOMAIN self :
                                          self[j] - MultiSet_getitem(b, j) > 0}
                                  |-> self[k] - MultiSet_getitem(b, k)]
        /\ (call' = "__add__" /\ AddCall(b)) =>
              /\ self' = self
              /\ args' = <<b>>
              /\ result' = "ok"
              /\ returned' = [k \in DOMAIN self \cup DOMAIN b |->
                                 MultiSet_getitem(self, k) + MultiSet_getitem(b, k)]
      ]_vars

\* a difference that dropped one key and kept the other
C18_DifferenceDropsZero ==
    /\ call = "__sub__"
    /\ result = "ok"
    /\ self = [k \in {"x", "y"} |-> 2]
    /\ returned = [k \in {"y"} |-> 1]

\* a subtraction of a larger count raised
C18_LargerCountRaised ==
    /\ call = "__sub__"
    /\ result = "ValueError"
    /\ self = [k \in {"x"} |-> 1]
    /\ args = <<[k \in {"x"} |-> 2]>>

\* every pattern field of self that is not None equals the field of triple t
FieldsAgree(t) ==
    /\ self.subject_predicate \in {None, t.subject_predicate}
    /\ self.subject_type \in {None, t.subject.type}
    /\ self.subject_name \in {None, t.subject.name}
    /\ self.relation \in {None, t.relation}
    /\ self.object_type \in {None, t.object.type}
    /\ self.object_name \in {None, t.object.name}

\* the last call was RelationalTriplePattern.match on a triple
TripleMatched ==
    /\ call = "RelationalTriplePattern.match"
    /\ result = "ok"

\* C19 as stated: RelationalTriplePattern.match(t) is true if and only if
\* every pattern field that is not None equals the corresponding field of t,
\* also for triples whose subject or object is named "*".
C19_MatchIffFieldsAgree ==
    TripleMatched => (returned = FieldsAgree(args[1]))

\* C19 amended: match(t) is true if and only if every pattern field that is
\* not None equals the corresponding field of t and neither the subject nor
\* the object of t is named "*" where the pattern leaves that name None.
C19_MatchIffFieldsAndWildcardsAgree ==
    TripleMatched =>
        (returned = (/\ FieldsAgree(args[1])
                     /\ ~(self.subject_name = None /\ args[1].subject.name = "*")
                     /\ ~(self.object_name = None /\ args[1].object.name = "*")))

\* a pattern with every field None was matched against a triple whose subject
\* is named "*" and did not match
C19_UnsetNameRefusesStar ==
    /\ TripleMatched
    /\ self = RelationalTriplePattern(None, None, None, None, None, None)
    /\ args[1].subject.name = "*"
    /\ returned = FALSE

\* C20: EntityPattern.match(e) is true only when pattern and entity agree on
\* being the wildcard: a pattern named "*" matches only entities named "*",
\* and a pattern with any other name, or with no name, matches no entity
\* named "*".
C20_WildcardnessAgrees ==
    (call = "EntityPattern.match" /\ result = "ok" /\ returned = TRUE)
        => ((self.name = "*") = (args[1].name = "*"))

\* a pattern with no type and no name was matched against an entity named "*"
\* and did not match
C20_UnsetNameRefusesStar ==
    /\ call = "EntityPattern.match"
    /\ result = "ok"
    /\ self = EntityPattern(None, None)
    /\ args[1].name = "*"
    /\ returned = FALSE

\* the last call was RelationalTriplePattern.replace on a triple
TripleReplaced ==
    /\ call = "RelationalTriplePattern.replace"
    /\ result = "ok"

\* the triple whose fields are those of self where Set(field) holds and those
\* of t elsewhere
Overridden(t, Set(_)) ==
    RelationalTriple(
        Entity(IF Set(self.subject_type) THEN self.subject_type ELSE t.subject.type,
               IF Set(self.subject_name) THEN self.subject_name ELSE t.subject.name),
        IF Set(self.relation) THEN self.relation ELSE t.relation,
        Entity(IF Set(self.object_type) THEN self.object_type ELSE t.object.type,
               IF Set(self.object_name) THEN self.object_name ELSE t.object.name),
        IF Set(self.subject_predicate) THEN self.subject_predicate
        ELSE t.subject_predicate)

IsSet(value) == value # None

\* C21 as stated: RelationalTriplePattern.replace(t) returns the triple in
\* which each of the six fields is the pattern's value when that is not None
\* and t's value when it is None, for every set value, Ellipsis and the
\* empty string included; the argument t stays as it was.
C21_ReplaceOverridesSetFields ==
    TripleReplaced => returned = Overridden(args[1], IsSet)

\* C21 for the values Python takes as true: a pattern field overrides t's
\* field exactly when it is neither None nor the empty string.
C21_ReplaceOverridesTrueFields ==
    TripleReplaced => returned = Overridden(args[1], Truthy)

\* a pattern whose subject_predicate is Ellipsis replaced the "member"
\* subject predicate of a triple
C21_EllipsisOverrides ==
    /\ TripleReplaced
    /\ self.subject_predicate = Ellipsis
    /\ args[1].subject_predicate = "member"
    /\ returned.subject_predicate = Ellipsis

\* ---- RuleSet.apply ----

\* the triples the generator has yielded so far, as a set
Yielded == {returned[i] : i \in DOMAIN returned}

\* the generator of the run has returned
ApplyDone == call = "RuleSet.apply" /\ frame.pc = "done"

\* the positions of the list that hold a Filter matching t
MatchingFilters(rules_and_filters, t) ==
    {i \in DOMAIN rules_and_filters :
        /\ rules_and_filters[i].class = "Filter"
        /\ RelationalTriplePattern_match(rules_and_filters[i].if_pattern, t).value}

\* what the Rules of the list derive from the triples of S
RuleImage(rules_and_filters, S) ==
    {RelationalTriplePattern_replace(rules_and_filters[i].then_pattern, s).value :
        <<i, s>> \in {<<k, x>> \in (DOMAIN rules_and_filters) \X S :
                        /\ rules_and_filters[k].class = "Rule"
                        /\ RelationalTriplePattern_match(
                               rules_and_filters[k].if_pattern, x).value}}

\* the least set that contains S and is closed under every Rule of the list
RECURSIVE LeastClosed(_, _)
LeastClosed(rules_and_filters, S) ==
    LET T == S \cup RuleImage(rules_and_filters, S)
    IN  IF T = S THEN S ELSE LeastClosed(rules_and_filters, T)

\* C22: apply(t) yields nothing when no Filter of the list matches t, whatever
\* the Rules do; when a Filter matches t, t is among the yielded triples; and
\* whatever a Rule derives from a yielded triple is yielded too, whether or
\* not a Filter matches it.
C22_Admission ==
    ApplyDone =>
        LET rules_and_filters == self.rules_and_filters
            t == args[1]
        IN  /\ MatchingFilters(rules_and_filters, t) = {} => returned = <<>>
            /\ MatchingFilters(rules_and_filters, t) # {} => t \in Yielded
            /\ RuleImage(rules_and_filters, Yielded) \subseteq Yielded

\* a derived triple that no Filter of the list matches was yielded
C22_DerivedYieldedUnfiltered ==
    /\ ApplyDone
    /\ \E s \in Yielded :
          /\ s # args[1]
          /\ MatchingFilters(self.rules_and_filters, s) = {}

\* a Rule of the list matches t, no Filter does, and nothing was yielded
C22_RuleAloneYieldsNothing ==
    /\ ApplyDone
    /\ RuleImage(self.rules_and_filters, {args[1]}) # {}
    /\ returned = <<>>

\* C23: for an admitted t the yielded triples are exactly the least set that
\* contains t and is closed under every Rule of the list, and no triple is
\* yielded twice.
C23_Saturation ==
    call = "RuleSet.apply" =>
        /\ \A i, j \in DOMAIN returned : returned[i] = returned[j] => i = j
        /\ (frame.pc = "done" /\ MatchingFilters(self.rules_and_filters, args[1]) # {})
              => Yielded = LeastClosed(self.rules_and_filters, {args[1]})

\* a run that yielded four triples, three of them derived
C23_FourYielded == ApplyDone /\ Len(returned) = 4

\* the values a field of a derived triple can take: the field of t or the
\* field of a then-pattern of the list
FieldValues(rules_and_filters, field(_), value) ==
    {value} \cup {field(rules_and_filters[i].then_pattern) :
                     i \in {k \in DOMAIN rules_and_filters :
                               rules_and_filters[k].class = "Rule"}}

\* the triples built from t's fields and the constants of the then-patterns
BuiltFrom(rules_and_filters, t) ==
    LET subject_predicate(p) == p.subject_predicate
        subject_type(p) == p.subject_type
        subject_name(p) == p.subject_name
        relation(p) == p.relation
        object_type(p) == p.object_type
        object_name(p) == p.object_name
    IN  {RelationalTriple(Entity(st, sn), r, Entity(ot, on), sp) :
            st \in FieldValues(rules_and_filters, subject_type, t.subject.type),
            sn \in FieldValues(rules_and_filters, subject_name, t.subject.name),
            r \in FieldValues(rules_and_filters, relation, t.relation),
            ot \in FieldValues(rules_and_filters, object_type, t.object.type),
            on \in FieldValues(rules_and_filters, object_name, t.object.name),
            sp \in FieldValues(rules_and_filters, subject_predicate,
                               t.subject_predicate)}

\* C24: every call of apply(t) whose generator is consumed comes to its end,
\* cyclic rule lists included: the triples in the worklist and the triples
\* yielded are built from t's fields and the constants of the then-patterns,
\* and the generator returns.
C24_Terminates ==
    /\ [](call = "RuleSet.apply" =>
            (frame.unprocessed \cup frame.processed \cup Yielded)
                \subseteq BuiltFrom(self.rules_and_filters, args[1]))
    /\ (call = "RuleSet.apply") ~> ApplyDone

\* a list holding the Rules member -> viewer and viewer -> member came to its
\* end having yielded a triple of each relation: each was derived again from
\* the other, popped and dropped
C24_CycleEnded ==
    /\ ApplyDone
    /\ {s.relation : s \in Yielded} = {"member", "viewer"}
    /\ \E i, j \in DOMAIN self.rules_and_filters :
          /\ self.rules_and_filters[i].class = "Rule"
          /\ self.rules_and_filters[j].class = "Rule"
          /\ self.rules_and_filters[i].if_pattern.relation = "member"
          /\ self.rules_and_filters[i].then_pattern.relation = "viewer"
          /\ self.rules_and_filters[j].if_pattern.relation = "viewer"
          /\ self.rules_and_filters[j].then_pattern.relation = "member"

\* the list with its entries rearranged by the permutation p of its positions
Permuted(rules_and_filters, p) ==
    [i \in DOMAIN rules_and_filters |-> rules_and_filters[p[i]]]

\* C25: the set of triples apply(t) yields is the same for every order in
\* which unprocessed.pop() picks and for every permutation of the entries of
\* rules_and_filters: every run of every rearranged list yields the set this
\* run has yielded.
C25_OrderIndependent ==
    ApplyDone =>
        \A p \in Permutations(DOMAIN self.rules_and_filters) :
            RuleSet_apply_sets(Permuted(self.rules_and_filters, p), args[1])
                = {Yielded}

\* a run that yielded four triples for a list that has a Rule before its
\* first Filter: the pops had several triples to choose from and the list
\* has rearrangements that put the Filter first
C25_RuleBeforeFilter ==
    /\ ApplyDone
    /\ Len(returned) = 4
    /\ self.rules_and_filters[1].class = "Rule"

\* C26: the union of apply(s) over the triples s that apply(t) yielded is the
\* set apply(t) yielded: no apply(s) yields a triple outside it, and every
\* triple of it is yielded by apply(s) for some s of it.
C26_SaturationIdempotent ==
    ApplyDone =>
        /\ \A s \in Yielded :
              \A again \in RuleSet_apply_sets(self.rules_and_filters, s) :
                  again \subseteq Yielded
        /\ \A x \in Yielded : \E s \in Yielded :
              \A again \in RuleSet_apply_sets(self.rules_and_filters, s) :
                  x \in again

\* apply(t) yielded a derived triple s that a Filter admits, so that apply(s)
\* yields triples of its own, and a derived triple that no Filter admits,
\* for which apply yields nothing
C26_DerivedAdmittedAndNot ==
    /\ ApplyDone
    /\ \E s \in Yielded :
          /\ s # args[1]
          /\ {} \notin RuleSet_apply_sets(self.rules_and_filters, s)
    /\ \E s \in Yielded :
          RuleSet_apply_sets(self.rules_and_filters, s) = {{}}

\* ---- the authorization scenarios ----

\* index.check_reachable(t.node_from, t.node_to)
check(t) ==
    check_reachable(Node_key(RelationalTriple_node_from(t)),
                    Node_key(RelationalTriple_node_to(t)))

\* the triple is among those written and not deleted
Written(t) == \E i \in DOMAIN added : added[i] = t

\* the nodes reached from the nodes of S by the edges of the written triples
RECURSIVE ReachedFrom(_)
ReachedFrom(S) ==
    LET T == S \cup {RelationalTriple_node_to(added[i]) :
                       i \in {k \in DOMAIN added :
                                 RelationalTriple_node_from(added[k]) \in S}}
    IN  IF T = S THEN S ELSE ReachedFrom(T)

\* the written triples hold a path from t's subject node to its object node
PathWritten(t) ==
    \E i \in DOMAIN added :
        /\ RelationalTriple_node_from(added[i]) = RelationalTriple_node_from(t)
        /\ RelationalTriple_node_to(t)
               \in ReachedFrom({RelationalTriple_node_to(added[i])})

\* C27: with the schema of the scenarios, after (alice, writer, doc1) was
\* written by add_edge(s.node_from, s.node_to) for every s that apply yields,
\* check_reachable is true for (alice, reader, doc1) and for
\* (alice, writer, doc1).
C27_WriterImpliesReader ==
    (/\ call = "write"
     /\ args = <<RelationalTriple(alice, "writer", doc1, Ellipsis)>>
     /\ result = "ok")
        => /\ check(RelationalTriple(alice, "reader", doc1, Ellipsis))
           /\ check(RelationalTriple(alice, "writer", doc1, Ellipsis))

\* (alice, writer, doc1) was written to the empty index: the index holds the
\* edges from alice to doc1#writer and to doc1#reader and nothing else
C27_WriterWritten ==
    /\ call = "write"
    /\ args = <<RelationalTriple(alice, "writer", doc1, Ellipsis)>>
    /\ result = "ok"
    /\ ncalls = 1
    /\ DOMAIN direct_edge_counts =
          {<<"user:alice#...", "document:doc1#writer">>,
           <<"user:alice#...", "document:doc1#reader">>}

\* C28: once (alice, member, g1) and (g1#member, writer, doc1) are written as
\* edges, check(alice, writer, doc1) is true; after (alice, member, g1) was
\* deleted it is true exactly when the triples still written hold another
\* path from alice to doc1#writer.
C28_GroupChainingAndRevocation ==
    LET member == RelationalTriple(alice, "member", Entity("group", "g1"), Ellipsis)
        grant == RelationalTriple(Entity("group", "g1"), "writer", doc1, "member")
        writer == RelationalTriple(alice, "writer", doc1, Ellipsis)
    IN  /\ (Written(member) /\ Written(grant)) => check(writer)
        /\ (call = "remove_edge" /\ result = "ok" /\ args = <<member>>)
              => (check(writer) <=> PathWritten(writer))

\* the membership was deleted while the group's grant stays written, and
\* alice is no writer of doc1 any more
C28_Revoked ==
    /\ call = "remove_edge" /\ result = "ok"
    /\ args = <<RelationalTriple(alice, "member", Entity("group", "g1"), Ellipsis)>>
    /\ added = <<RelationalTriple(Entity("group", "g1"), "writer", doc1, "member")>>
    /\ ~check(RelationalTriple(alice, "writer", doc1, Ellipsis))

\* the membership was deleted and alice is still a writer of doc1, through
\* a direct grant or through a second group
C28_OtherPathStays ==
    /\ call = "remove_edge" /\ result = "ok"
    /\ args = <<RelationalTriple(alice, "member", Entity("group", "g1"), Ellipsis)>>
    /\ ~Written(RelationalTriple(alice, "member", Entity("group", "g1"), Ellipsis))
    /\ Written(RelationalTriple(Entity("group", "g1"), "writer", doc1, "member"))
    /\ check(RelationalTriple(alice, "writer", doc1, Ellipsis))

\* ---- lookups ----

\* C29: in every reachable state and for every node n, lookup_reachable(n)
\* returns exactly the nodes v with index_paths_counts[n][v] > 0 and
\* lookup_reverse(n) returns exactly the nodes u with
\* index_paths_counts[u][n] > 0, the empty list when there are none.
C29_LookupsReturnClosure ==
    /\ call = "lookup_reachable" =>
          /\ result = "ok"
          /\ returned = {v \in Node : PathCount(args[1], v) > 0}
    /\ call = "lookup_reverse" =>
          /\ result = "ok"
          /\ returned = {u \in Node : PathCount(u, args[1]) > 0}

\* C29 for lookup_reachable alone, in every state
C29_LookupReachableReturnsClosure ==
    call = "lookup_reachable" =>
        /\ result = "ok"
        /\ returned = {v \in Node : PathCount(args[1], v) > 0}

\* C29 for the calls of lookup_reverse that return
C29_LookupReverseWhenAnswered ==
    (call = "lookup_reverse" /\ result = "ok") =>
        returned = {u \in Node : PathCount(u, args[1]) > 0}

\* every call of lookup_reverse for a node that nothing reaches raises
C29_LookupReverseRaisesWhenNone ==
    call = "lookup_reverse" =>
        ((result = "TypeError") <=> (args[1] \notin DOMAIN inverted_index_paths))

\* ---- update ordering ----

\* C30: a call of add_edge, remove_edge or remove_node on nodes with names
\* that are not empty, made where its preconditions hold (add_edge: u # v and
\* u not reachable from v; remove_edge: u # v and a direct edge (u, v)),
\* completes without raising, whatever the iteration order: no run of
\* _check_invariants after a closure-entry update fails (AssertionError,
\* KeyError) and no count is set to a negative value (ValueError); and the
\* index it leaves passes the check.
C30_LegalCallsKeepInvariants ==
    \A u, v \in NamedNode :
        /\ (u # v /\ PathCount(v, u) = 0) =>
              \A out \in add_edge(Cur, u, v) :
                  out.raised = {} /\ _check_invariants(out) = {}
        /\ (u # v /\ DirectCount(u, v) > 0) =>
              \A out \in remove_edge(Cur, u, v) :
                  out.raised = {} /\ _check_invariants(out) = {}
        /\ \A out \in remove_node(Cur, u) :
              out.raised = {} /\ _check_invariants(out) = {}

\* the middle edge of the chain a -> b -> c -> d was removed: the direct
\* count went first, then the closure entries b -> c, a -> d, b -> d, a -> c
\* and c's entries, each followed by a check
C30_MidChainRemoved ==
    /\ call = "remove_edge" /\ result = "ok" /\ ncalls = 4
    /\ direct_edge_counts = [e \in {<<"a", "b">>, <<"c", "d">>} |-> 1]
    /\ index_paths_counts = [n \in {"a", "c"} |->
                                IF n = "a" THEN [m \in {"b"} |-> 1]
                                ELSE [m \in {"d"} |-> 1]]

\* the middle node of a chain was removed with its two edges
C30_MidNodeRemoved ==
    /\ call = "remove_node" /\ result = "ok" /\ ncalls = 4
    /\ direct_edge_counts = [e \in {<<"a", "b">>} |-> 1]
    /\ index_paths_counts = [n \in {"a"} |-> [m \in {"b"} |-> 1]]

-----------------------------------------------------------------------------
(* The database index against the index in memory (runs of the same calls  *)
(* on both, from empty).                                                   *)

\* the last call returned on both indexes, or raised on both
SameOutcome == (returned.result = "ok") <=> (result = "ok")

\* the edge table has a row (u, v, d, i) exactly when
\* index_paths_counts[u][v] = i > 0 and direct_edge_counts[(u, v)] = d
RowsAreCounts ==
    /\ \A t \in self.edge :
          /\ t.indirect_edge_count > 0
          /\ PathCount(t.subject_id, t.object_id) = t.indirect_edge_count
          /\ DirectCount(t.subject_id, t.object_id) = t.direct_edge_count
    /\ \A u, v \in Node :
          PathCount(u, v) > 0 =>
              \E t \in self.edge : t.subject_id = u /\ t.object_id = v

\* at most one row per (subject, object)
OneRowPerPair ==
    \A s, t \in self.edge :
        s.subject_id = t.subject_id /\ s.object_id = t.object_id => s = t

\* every row has indirect_edge_count >= direct_edge_count >= 0 and
\* indirect_edge_count > 0
RowsWellFormed ==
    \A t \in self.edge :
        /\ t.indirect_edge_count >= t.direct_edge_count
        /\ t.indirect_edge_count > 0
        /\ t.direct_edge_count >= 0

\* the arguments of the call being made all have non-empty names
NamedArgs == \A i \in 1..Len(args') : args'[i] # ""

\* C31: the database index refines the index in memory: after every call of
\* add_edge, remove_edge or remove_node made on both from empty, the call
\* returned on both or raised on both, the edge table has a row (u, v, d, i)
\* exactly when index_paths_counts[u][v] = i > 0 and
\* direct_edge_counts[(u, v)] = d, with at most one row per (u, v), and
\* every row has indirect_edge_count >= direct_edge_count and
\* indirect_edge_count > 0.
C31_DatabaseRefinesMemory ==
    /\ SameOutcome
    /\ RowsAreCounts
    /\ OneRowPerPair
    /\ RowsWellFormed

\* C31, what holds of the tables: a call on nodes with non-empty names made
\* while the rows are the counts leaves the rows the counts, whatever the
\* two outcomes are.
C31_RowsFollowCounts ==
    [][RowsAreCounts /\ NamedArgs => RowsAreCounts']_vars

\* C31, what holds of the outcomes: such a call returns on both or raises on
\* both when it is add_edge or remove_edge, or remove_node of a node that
\* has a row in the node table.
C31_SameOutcomeUnlessUnknownNode ==
    [][/\ RowsAreCounts
       /\ NamedArgs
       /\ \/ call' # "remove_node"
          \/ \E n \in self.node : n.id = args'[1]
       => SameOutcome']_vars

\* C31, what holds of the rows in every state: one row per pair, each with
\* indirect_edge_count >= direct_edge_count and indirect_edge_count > 0.
C31_RowsUniqueAndWellFormed == OneRowPerPair /\ RowsWellFormed

\* remove_node of a node neither index has heard of: the index in memory
\* returns, the database index raises KeyError
C31_UnknownNodeRemoved ==
    /\ call = "remove_node" /\ ncalls = 1
    /\ result = "ok" /\ returned.result = "KeyError"

-----------------------------------------------------------------------------
(* Reference counts and implicit nodes in the database index.              *)

\* the rows of the edge table incident on the node as subject or object
IncidentRows(id) ==
    {t \in self.edge : t.subject_id = id \/ t.object_id = id}

\* the number of direct edges incident on the node, with multiplicity
IncidentDirectEdges(id) ==
    SumOver(IncidentRows(id), [t \in IncidentRows(id) |-> t.direct_edge_count])

\* C32: reference counts are exact: after any sequence of add_edge,
\* remove_edge and remove_node calls on the database, every node row's
\* reference_count is the sum of direct_edge_count over the edge rows that
\* have the node as subject or object.
C32_ReferenceCountsExact ==
    \A n \in self.node : n.reference_count = IncidentDirectEdges(n.id)

\* C32, what holds: add_edge and remove_edge, returning or raising, keep
\* exact reference counts exact.
C32_EdgeCallsKeepCountsExact ==
    [][C32_ReferenceCountsExact /\ call' # "remove_node"
           => C32_ReferenceCountsExact']_vars

\* C32, what holds: a reference count is never below the number of incident
\* direct edges.
C32_ReferenceCountsNotBelow ==
    \A n \in self.node : n.reference_count >= IncidentDirectEdges(n.id)

\* remove_node(a) after add_edge(a, b): b's row keeps reference_count 1 with
\* no edge row left
C32_NeighbourCountStale ==
    /\ call = "remove_node" /\ returned.result = "ok"
    /\ self.edge = {}
    /\ \E n \in self.node : n.reference_count = 1

\* the node table has no implicit node without an incident direct edge
NoUnreferencedImplicitNode ==
    \A n \in self.node : n.implicit => IncidentDirectEdges(n.id) > 0

\* the number of direct edges incident on the node after the call
IncidentDirectEdgesAfter(id) ==
    LET rows == {t \in self'.edge : t.subject_id = id \/ t.object_id = id}
    IN  SumOver(rows, [t \in rows |-> t.direct_edge_count])

\* a remove_edge that returns deletes the row of each implicit node it leaves
\* without an incident direct edge
LastEdgeCollectsImplicit ==
    call' = "remove_edge" /\ returned'.result = "ok" =>
        \A n \in self.node :
            n.implicit /\ IncidentDirectEdgesAfter(n.id) = 0 =>
                ~\E m \in self'.node : m.id = n.id

\* a remove_edge that returns keeps the row of each explicit node at its
\* ends, with reference_count 0 when it was 1
ExplicitSurvives ==
    call' = "remove_edge" /\ returned'.result = "ok" =>
        \A n \in self.node :
            ~n.implicit /\ (\E i \in 1..2 : args'[i] = n.id) =>
                NodeRow(n.id, FALSE, n.reference_count - 1) \in self'.node

\* C33: implicit nodes are collected: after every add_edge, remove_edge or
\* remove_node call on the database, returning or raising, the node table
\* has no implicit node without an incident direct edge; a remove_edge that
\* removes the last incident direct edge of an implicit node deletes its
\* row; a node marked explicit survives remove_edge with reference_count 0.
C33_ImplicitNodesCollected ==
    /\ []NoUnreferencedImplicitNode
    /\ [][LastEdgeCollectsImplicit /\ ExplicitSurvives]_vars

\* C33, what holds: a node marked explicit survives remove_edge.
C33_ExplicitSurvives == [][ExplicitSurvives]_vars

\* C33, what holds: where the reference counts are exact, remove_edge
\* deletes the implicit nodes it leaves without an incident direct edge,
\* and add_edge and remove_edge that return leave no implicit node without
\* one.
C33_CollectedWhileCountsExact ==
    [][/\ C32_ReferenceCountsExact
       /\ call' \in {"add_edge", "remove_edge"}
       /\ returned'.result = "ok"
       /\ NoUnreferencedImplicitNode
       => LastEdgeCollectsImplicit /\ NoUnreferencedImplicitNode']_vars

\* add_edge of a node to itself raised and left the node's new implicit row
C33_SelfEdgeLeavesNode ==
    /\ call = "add_edge" /\ returned.result = "AssertionError"
    /\ self = Database({NodeRow("a", TRUE, 0)}, {})

\* an explicit node is left with reference_count 0 by remove_edge
C33_ExplicitLeftAtZero ==
    /\ call = "remove_edge" /\ returned.result = "ok"
    /\ NodeRow("a", FALSE, 0) \in self.node

-----------------------------------------------------------------------------
(* Transactions of the database index.                                     *)

\* the call being made is one of the three calls that change edges
EdgeCall == call' \in {"add_edge", "remove_edge", "remove_node"}

\* the call commits at most once, and nothing when it raises
OneTransaction ==
    /\ Len(returned'.commits) <= 1
    /\ returned'.result # "ok" => self' = self /\ returned'.commits = <<>>

\* C34: one transaction per public call: what one add_edge, remove_edge or
\* remove_node call changes in the database, the creation of missing node
\* rows included, is committed together in one transaction, so the call
\* commits at most once, and a call that raises leaves the node and edge
\* tables exactly as before.
C34_SingleTransaction == [][EdgeCall => OneTransaction]_vars

\* C34, what holds: remove_edge and remove_node commit at most once and
\* leave the tables as before when they raise; so does add_edge when both
\* of its nodes already have rows.
C34_SingleTransactionWithoutNewNodes ==
    [][/\ EdgeCall
       /\ call' = "add_edge" =>
              \A i \in 1..2 : \E n \in self.node : n.id = args'[i]
       => OneTransaction]_vars

\* C34, what holds: the changes to the edge table and to the reference
\* counts are committed together, last: a call that raises leaves the edge
\* table and the rows of the node table it found as before, and every
\* earlier commit of a call has the edge table as before.
C34_EdgesInOneTransaction ==
    [][EdgeCall =>
          /\ returned'.result # "ok" =>
                self'.edge = self.edge /\ self.node \subseteq self'.node
          /\ \A i \in 1..(Len(returned'.commits) - 1) :
                returned'.commits[i].edge = self.edge]_vars

\* add_edge(a, b) on the empty database returned after three commits: a's
\* row, b's row, then the edge with the two reference counts
C34_NodesCommittedFirst ==
    /\ call = "add_edge" /\ returned.result = "ok"
    /\ returned.commits =
          <<Database({NodeRow("a", TRUE, 0)}, {}),
            Database({NodeRow("a", TRUE, 0), NodeRow("b", TRUE, 0)}, {}),
            Database({NodeRow("a", TRUE, 1), NodeRow("b", TRUE, 1)},
                     {EdgeRow("a", "b", 1, 1)})>>

\* add_edge(a, a) on the empty database raised after it committed a's row
C34_FailedCallCommitted ==
    /\ call = "add_edge" /\ returned.result = "AssertionError"
    /\ returned.commits = <<Database({NodeRow("a", TRUE, 0)}, {})>>

-----------------------------------------------------------------------------
(* The first index version.                                                *)

\* index_path_counts[(u, v)] of an index object, 0 when absent
V1PathCount(idx, u, v) == MultiSet_getitem(idx.index_path_counts, <<u, v>>)

V1EdgeCount(idx, u, v) == MultiSet_getitem(idx.edge_counts, <<u, v>>)

\* the index after add_edge(a, b); add_edge(c, d)
V1_ab_cd ==
    IndexV1([n \in {"a", "c"} |-> IF n = "a" THEN {"b"} ELSE {"d"}],
            [n \in {"b", "d"} |-> IF n = "b" THEN {"a"} ELSE {"c"}],
            [e \in {<<"a", "b">>, <<"c", "d">>} |-> 1],
            [e \in {<<"a", "b">>, <<"c", "d">>} |-> 1])

\* the closure a -> {b, c, d}, b -> {c, d}, c -> {d}, one path each, in the
\* three containers
V1_chain_closed(idx) ==
    /\ idx.index_paths =
          [n \in {"a", "b", "c"} |->
              IF n = "a" THEN {"b", "c", "d"}
              ELSE IF n = "b" THEN {"c", "d"} ELSE {"d"}]
    /\ idx.inverted_index_paths =
          [n \in {"b", "c", "d"} |->
              IF n = "b" THEN {"a"}
              ELSE IF n = "c" THEN {"a", "b"} ELSE {"a", "b", "c"}]
    /\ idx.index_path_counts =
          [e \in {<<"a", "b">>, <<"a", "c">>, <<"a", "d">>, <<"b", "c">>,
                  <<"b", "d">>, <<"c", "d">>} |-> 1]

\* add_edge(u, v) returned: each node y reachable from v has become reachable
\* from each node x that reaches u, by count(x, u) * count(v, y) more paths
SpliceAddsProducts ==
    call' = "add_edge" =>
        \A x, y \in NamedNode :
            /\ V1PathCount(self, x, args'[1]) > 0
            /\ V1PathCount(self, args'[2], y) > 0
            => V1PathCount(self', x, y) =
                   V1PathCount(self, x, y)
                       + V1PathCount(self, x, args'[1])
                             * V1PathCount(self, args'[2], y)

\* C35: mid-chain splice in the first index version: add_edge(u, v) makes
\* every node reachable from v reachable from every node that reaches u,
\* adding the product of the two path counts; after add(a, b); add(c, d);
\* add(b, c) the closure is a -> {b, c, d}, b -> {c, d}, c -> {d}, one path
\* each, in index_paths, inverted_index_paths and index_path_counts.
C35_MidChainSplice ==
    [][/\ SpliceAddsProducts
       /\ self = V1_ab_cd /\ call' = "add_edge" /\ args' = <<"b", "c">>
              => V1_chain_closed(self')]_vars

\* C35, what holds: add_edge(u, v) that returns adds count(v, y) to the
\* paths from u to each y reachable from v, count(x, u) to the paths from
\* each x that reaches u to v, one path from u to v and one edge (u, v),
\* and changes no other count.
C35_AddEdgeJoinsEndsOnly ==
    [][call' = "add_edge" =>
          LET u == args'[1]
              v == args'[2]
          IN  /\ V1EdgeCount(self', u, v) = V1EdgeCount(self, u, v) + 1
              /\ \A x, y \in NamedNode :
                    V1PathCount(self', x, y) =
                        V1PathCount(self, x, y)
                            + (IF x = u /\ y = v THEN 1
                               ELSE IF x = u THEN V1PathCount(self, v, y)
                               ELSE IF y = v THEN V1PathCount(self, x, u)
                               ELSE 0)]_vars

\* after add(a, b); add(c, d); add(b, c): d is not reachable from a
C35_EndsNotJoined ==
    /\ call = "add_edge" /\ args = <<"b", "c">> /\ ncalls = 3
    /\ self.edge_counts = [e \in {<<"a", "b">>, <<"c", "d">>, <<"b", "c">>} |-> 1]
    /\ self.index_path_counts =
          [e \in {<<"a", "b">>, <<"a", "c">>, <<"b", "c">>, <<"b", "d">>,
                  <<"c", "d">>} |-> 1]
    /\ "d" \notin self.index_paths["a"]
    /\ "a" \notin self.inverted_index_paths["d"]

\* index_paths, inverted_index_paths and index_path_counts of an index
\* object agree: v in index_paths[u] iff u in inverted_index_paths[v] iff
\* index_path_counts[(u, v)] > 0
V1Consistent(idx) ==
    \A u, v \in NamedNode :
        /\ v \in dict_get(idx.index_paths, u, {})
               <=> u \in dict_get(idx.inverted_index_paths, v, {})
        /\ v \in dict_get(idx.index_paths, u, {}) <=> V1PathCount(idx, u, v) > 0

\* remove_edge(u, v) completes, takes one edge (u, v) and leaves the three
\* containers of paths in agreement
V1RemovalSucceeds(u, v) ==
    \A out \in v1_remove_edge(self, u, v) :
        /\ out.raised = {}
        /\ V1EdgeCount(out, u, v) = V1EdgeCount(self, u, v) - 1
        /\ V1Consistent(out)

\* C36: legal removals always succeed in the first index version: in every
\* state reached from empty by add_edge and remove_edge calls that returned,
\* for every pair u # v with edge_counts[(u, v)] > 0, remove_edge(u, v)
\* completes without raising, lowers edge_counts[(u, v)] by one and leaves
\* index_paths, inverted_index_paths and index_path_counts consistent.
C36_LegalRemovalsSucceed ==
    \A u, v \in NamedNode :
        u # v /\ V1EdgeCount(self, u, v) > 0 => V1RemovalSucceeds(u, v)

\* C36, what holds: the three containers of paths agree in every state
\* reached by calls that returned, and a removal that returns took exactly
\* one edge (u, v).
C36_ReturnedCallsConsistent ==
    /\ []V1Consistent(self)
    /\ [][call' = "remove_edge" =>
             V1EdgeCount(self', args'[1], args'[2])
                 = V1EdgeCount(self, args'[1], args'[2]) - 1]_vars

\* C36, what holds: a legal removal that raises raises ValueError, from the
\* MultiSet asked to store a negative path count, or AssertionError, from
\* an end of the edge found among the nodes on its other side; the sets
\* are never asked for a pair they do not hold (KeyError).
C36_LegalRemovalRaisesNoKeyError ==
    \A u, v \in NamedNode :
        u # v /\ V1EdgeCount(self, u, v) > 0 =>
            \A out \in v1_remove_edge(self, u, v) :
                out.raised \subseteq {"ValueError", "AssertionError"}

\* after add(a, b); add(c, d); add(b, c), remove_edge(c, d) raises
\* ValueError: it takes the path a -> d that add(b, c) never counted
C36_LegalRemovalRaises ==
    /\ C35_EndsNotJoined
    /\ \A out \in v1_remove_edge(self, "c", "d") : out.raised = {"ValueError"}

====
